---- MODULE Spec2Model ----
(***************************************************************************)
(* A model of spark8t: the account registry (K8sServiceAccountRegistry)    *)
(* over its two cluster backends, KubeInterface (kubectl) and LightKube.   *)
(* The cluster is a map from resource keys <<kind, namespace, name>> to    *)
(* objects; a backend call is an operator from a cluster to a cluster, an  *)
(* error and a value; a registry operation is the sequence of backend      *)
(* calls its code makes.                                                   *)
(***************************************************************************)
EXTENDS Integers, Sequences, FiniteSets, TLC

VARIABLES backend, cluster, last, n

vars == <<backend, cluster, last, n>>

(***************************************************************************)
(* Bounds of the model.                                                    *)
(***************************************************************************)
\* Operations that write to the cluster in one run of Spec.
MaxOps == 2
\* Operations that write to the cluster in one run of SpecPrimary.
MaxPrimaryOps == 4
\* Operations that write to the cluster in one run of SpecFault.
MaxFaultOps == 2
\* Calls that write to the cluster in one run of SpecBackend.
MaxBackendOps == 3
\* Operations on the cluster in a behaviour of SpecCreate.
MaxCreateOps == 2
\* Operations on the cluster in a behaviour of SpecDelete.
MaxDeleteOps == 3
\* Operations on the cluster in a behaviour of SpecRelabel.
MaxRelabelOps == 3
\* Contexts of a kube config in SpecMaster.
MaxContexts == 3
MaxCleanupOps == 3
MaxFrameOps == 3
MaxCommandOps == 2

(***************************************************************************)
(* Literals and the resource kinds.                                        *)
(***************************************************************************)
None == "None"

MANAGED_BY_LABELNAME == "app.kubernetes.io/managed-by"
SPARK8S_LABEL == "spark8t"
PRIMARY_LABELNAME == "app.kubernetes.io/spark8t-primary"

SERVICEACCOUNT == "serviceaccount"
ROLE == "role"
ROLEBINDING == "rolebinding"
SECRET == "secret"
SECRET_GENERIC == "secret generic"
NAMESPACE == "namespace"

KubernetesResourceType ==
  {SERVICEACCOUNT, ROLE, ROLEBINDING, SECRET, SECRET_GENERIC, NAMESPACE}

Backends == {"kubectl", "lightkube"}

\* The namespace of the context the backend was built with
\* (self.namespace: context.get("namespace", "default")).
self_namespace == "default"

(***************************************************************************)
(* The universe of the model: namespaces, names, configurations.  The      *)
(* orders are the cluster's listing order (by namespace, then by name).    *)
(***************************************************************************)
NamespaceOrder == <<"default", "ns1">>
NameOrder == <<"a", "a-role", "b">>
Namespaces == {NamespaceOrder[i] : i \in DOMAIN NamespaceOrder}
Names == {NameOrder[i] : i \in DOMAIN NameOrder}

\* Configuration keys are sequences of characters.
KeyDot == <<"x", ".", "m">>
KeySlash == <<"a", "/", "_">>
KeyPlain == <<"u", "_", "2", "F">>
ConfA == (KeyDot :> "4g") @@ (KeySlash :> "v")
ConfB == (KeyPlain :> "8g")
EmptyConf == <<>>
Confs == {EmptyConf, ConfA, ConfB}
Values == {"4g", "v", "8g"}

(***************************************************************************)
(* Errors and results.                                                     *)
(***************************************************************************)
Err(type, a, b) == [type |-> type, a |-> a, b |-> b]
NoErr == Err("none", "", "")
K8sResourceNotFound(name, kind) == Err("K8sResourceNotFound", name, kind)
AccountNotFound(id) == Err("AccountNotFound", id, "")
CalledProcessError(reason) == Err("CalledProcessError", reason, "")
ApiError(code) == Err("ApiError", ToString(code), "")
KeyError(key) == Err("KeyError", key, "")
NotImplementedError(kind) == Err("NotImplementedError", kind, "")
\* A fault of the transport: the call fails and changes nothing.
TransportFault == Err("TransportFault", "", "")

Res(c, err, val) == [c |-> c, err |-> err, val |-> val]
Ok(r) == r.err = NoErr

(***************************************************************************)
(* The cluster: resource keys and objects, and what the API server does    *)
(* with a request.                                                         *)
(***************************************************************************)
Key(kind, ns, name) == <<kind, ns, name>>
NsKey(name) == Key(NAMESPACE, "", name)
Obj(labels, data) == [labels |-> labels, data |-> data]
NoLabels == <<>>
NoData == <<>>

EmptyCluster == [k \in {NsKey(ns) : ns \in Namespaces} |-> Obj(NoLabels, NoData)]

Present(c, key) == key \in DOMAIN c
NamespaceExists(c, key) == key[1] = NAMESPACE \/ NsKey(key[2]) \in DOMAIN c

\* The characters a Secret key (and an env-file key) may hold.
SafeKeyChars ==
  {"a", "b", "m", "u", "v", "x", "E", "F", "2", "4", "8", "g", "-", "_", "."}
KeyNameOk(k) == \A i \in DOMAIN k : k[i] \in SafeKeyChars

\* POST of an object: 404 in a namespace that does not exist, 409 when the
\* key is taken, 422 for a Secret key outside the allowed characters.
ApiCreate(c, key, obj) ==
  IF ~NamespaceExists(c, key) THEN [c |-> c, status |-> 404]
  ELSE IF Present(c, key) THEN [c |-> c, status |-> 409]
  ELSE IF \E k \in DOMAIN obj.data : ~KeyNameOk(k) THEN [c |-> c, status |-> 422]
  ELSE [c |-> (key :> obj) @@ c, status |-> 201]

\* DELETE of an object: 404 when it does not exist.
ApiDelete(c, key) ==
  IF ~Present(c, key) THEN [c |-> c, status |-> 404]
  ELSE [c |-> [k \in DOMAIN c \ {key} |-> c[k]], status |-> 200]

\* Merge patch {"metadata": {"labels": {k: v}}}.
ApiMergeLabel(c, key, k, v) ==
  IF ~Present(c, key) THEN [c |-> c, status |-> 404]
  ELSE [c |-> [c EXCEPT ![key].labels = (k :> v) @@ @], status |-> 200]

\* JSON patch [{"op": "remove", "path": "/metadata/labels/<k>"}]: the
\* remove operation fails on a path that does not exist.
ApiJsonRemoveLabel(c, key, k) ==
  IF ~Present(c, key) THEN [c |-> c, status |-> 404]
  ELSE IF k \notin DOMAIN c[key].labels THEN [c |-> c, status |-> 422]
  ELSE [c |-> [c EXCEPT ![key].labels = [x \in DOMAIN @ \ {k} |-> @[x]]],
        status |-> 200]

\* The value of a Secret on the wire, and its decoding (base64).
B64Encode(v) == "b64(" \o v \o ")"
B64Decode(w) == CHOOSE v \in Values : B64Encode(v) = w

\* Label strings "key=value" and their parsing.
Label(k, v) == k \o "=" \o v
LabelKeys == {MANAGED_BY_LABELNAME, PRIMARY_LABELNAME}
LabelValues == {SPARK8S_LABEL, "True"}
ParseLabel(s) == CHOOSE p \in LabelKeys \X LabelValues : Label(p[1], p[2]) = s

\* Whether an object carries every label of the filter.
MatchLabels(obj, labels) ==
  \A i \in DOMAIN labels :
    LET p == ParseLabel(labels[i])
    IN p[1] \in DOMAIN obj.labels /\ obj.labels[p[1]] = p[2]

\* The Identities of the cluster in listing order, as <<namespace, name>>.
ListingOrder ==
  [i \in 1..(Len(NamespaceOrder) * Len(NameOrder)) |->
     <<NamespaceOrder[((i - 1) \div Len(NameOrder)) + 1],
       NameOrder[((i - 1) % Len(NameOrder)) + 1]>>]

\* The metadata of an object as a backend returns it.
Raw(c, key) ==
  [metadata |-> [name |-> key[3], namespace |-> key[2], labels |-> c[key].labels],
   data |-> c[key].data]

(***************************************************************************)
(* KubeInterface: the backend that runs kubectl.                           *)
(***************************************************************************)
\* The resource names that hold the text "-n", and those that hold the
\* text "--namespace": exec looks for both in the command line.
WordsWithDashN == {"spark-namespace", "x--namespace"}
WordsWithNamespaceOption == {"x--namespace"}
HasDashN(word) == word \in WordsWithDashN
HasNamespaceOption(word) == word \in WordsWithNamespaceOption

\* namespace or self.namespace
OrSelfNamespace(ns) == IF ns = None THEN self_namespace ELSE ns

\* exec: the --namespace option put before the command, <<>> when none is.
\* cmdHasDashN: "-n" in cmd; cmdHasNamespace: "--namespace" in cmd.
exec_namespace_option(cmdHasDashN, cmdHasNamespace, ns) ==
  IF (ns # None /\ ~cmdHasNamespace) \/ ~cmdHasDashN THEN <<ns>> ELSE <<>>

\* The namespace kubectl works in: the last namespace option of the command
\* line (the command's own -n comes after the one of exec), else the
\* namespace of the context.
KubectlNamespace(option, inline) ==
  IF inline # <<>> THEN inline[1]
  ELSE IF option # <<>> THEN option[1]
  ELSE self_namespace

\* The kind kubectl stores for a kind word of the command.
StoredKind(kind) == IF kind = SECRET_GENERIC THEN SECRET ELSE kind

\* The data of a Secret built from the entries of a property file.
SecretData(props) == [k \in DOMAIN props |-> B64Encode(props[k])]

K_get_service_account(c, account_id, ns) ==
  LET option == exec_namespace_option(TRUE, HasNamespaceOption(account_id),
                                      self_namespace)
      key == Key(SERVICEACCOUNT, KubectlNamespace(option, <<ns>>), account_id)
  IN IF ~Present(c, key)
     THEN Res(c, K8sResourceNotFound(account_id, SERVICEACCOUNT), None)
     ELSE Res(c, NoErr, Raw(c, key))

K_get_service_accounts(c, ns, labels) ==
  LET option == exec_namespace_option(ns # None, FALSE, None)
      listed(p) ==
        /\ ns = None \/ p[1] = KubectlNamespace(option, <<ns>>)
        /\ Present(c, Key(SERVICEACCOUNT, p[1], p[2]))
        /\ MatchLabels(c[Key(SERVICEACCOUNT, p[1], p[2])], labels)
      keys == SelectSeq(ListingOrder, listed)
  IN Res(c, NoErr,
         [i \in DOMAIN keys |-> Raw(c, Key(SERVICEACCOUNT, keys[i][1], keys[i][2]))])

K_get_secret(c, secret_name, ns) ==
  LET option == exec_namespace_option(TRUE, HasNamespaceOption(secret_name),
                                      OrSelfNamespace(ns))
      key == Key(SECRET, KubectlNamespace(option, <<>>), secret_name)
  IN IF ~Present(c, key)
     THEN Res(c, K8sResourceNotFound(secret_name, SECRET), None)
     ELSE IF c[key].data = NoData THEN Res(c, KeyError("data"), None)
     ELSE Res(c, NoErr,
              [Raw(c, key) EXCEPT
                 !.data = [k \in DOMAIN c[key].data |-> B64Decode(c[key].data[k])]])

K_set_label(c, resource_type, resource_name, label, ns) ==
  LET option == exec_namespace_option(HasDashN(resource_name),
                                      HasNamespaceOption(resource_name),
                                      OrSelfNamespace(ns))
      key == Key(StoredKind(resource_type), KubectlNamespace(option, <<>>),
                 resource_name)
      p == ParseLabel(label)
  IN IF resource_type \notin KubernetesResourceType
     THEN Res(c, CalledProcessError("unknown resource type"), None)
     ELSE IF ~Present(c, key) THEN Res(c, CalledProcessError("NotFound"), None)
     ELSE IF p[1] \in DOMAIN c[key].labels /\ c[key].labels[p[1]] # p[2]
     THEN Res(c, CalledProcessError("already has a value"), None)
     ELSE Res(ApiMergeLabel(c, key, p[1], p[2]).c, NoErr, None)

K_remove_label(c, resource_type, resource_name, label, ns) ==
  LET option == exec_namespace_option(HasDashN(resource_name),
                                      HasNamespaceOption(resource_name),
                                      OrSelfNamespace(ns))
      key == Key(StoredKind(resource_type), KubectlNamespace(option, <<>>),
                 resource_name)
  IN IF resource_type \notin KubernetesResourceType
     THEN Res(c, CalledProcessError("unknown resource type"), None)
     ELSE IF ~Present(c, key) THEN Res(c, CalledProcessError("NotFound"), None)
     ELSE IF label \notin DOMAIN c[key].labels THEN Res(c, NoErr, None)
     ELSE Res(ApiJsonRemoveLabel(c, key, label).c, NoErr, None)

K_create(c, resource_type, resource_name, ns, extra_args) ==
  LET option ==
        IF resource_type = NAMESPACE
        THEN exec_namespace_option(HasDashN(resource_name),
                                   HasNamespaceOption(resource_name), None)
        ELSE exec_namespace_option(HasDashN(resource_name),
                                   HasNamespaceOption(resource_name),
                                   OrSelfNamespace(ns))
      key == IF resource_type = NAMESPACE THEN NsKey(resource_name)
             ELSE Key(StoredKind(resource_type), KubectlNamespace(option, <<>>),
                      resource_name)
      data == IF resource_type = SECRET_GENERIC
              THEN SecretData(extra_args.from_env_file) ELSE NoData
      r == ApiCreate(c, key, Obj(NoLabels, data))
  IN IF resource_type \notin KubernetesResourceType \/ resource_type = SECRET
     THEN Res(c, CalledProcessError("unknown resource type"), None)
     ELSE IF r.status = 201 THEN Res(r.c, NoErr, None)
     ELSE IF r.status = 409 THEN Res(c, CalledProcessError("AlreadyExists"), None)
     ELSE IF r.status = 404 THEN Res(c, CalledProcessError("NotFound"), None)
     ELSE Res(c, CalledProcessError("invalid"), None)

K_delete(c, resource_type, resource_name, ns) ==
  LET option == exec_namespace_option(TRUE, HasNamespaceOption(resource_name),
                                      OrSelfNamespace(ns))
      key == IF resource_type = NAMESPACE THEN NsKey(resource_name)
             ELSE Key(StoredKind(resource_type), KubectlNamespace(option, <<>>),
                      resource_name)
  IN IF resource_type \notin KubernetesResourceType
     THEN Res(c, CalledProcessError("unknown resource type"), None)
     ELSE Res(ApiDelete(c, key).c, NoErr, None)

\* get <kind> <name> --ignore-not-found: the output is None when nothing
\* is found.
K_exists(c, resource_type, resource_name, ns) ==
  LET option == exec_namespace_option(TRUE, HasNamespaceOption(resource_name),
                                      OrSelfNamespace(ns))
      key == IF resource_type = NAMESPACE THEN NsKey(resource_name)
             ELSE Key(StoredKind(resource_type), KubectlNamespace(option, <<>>),
                      resource_name)
  IN IF resource_type \notin KubernetesResourceType
     THEN Res(c, CalledProcessError("unknown resource type"), None)
     ELSE Res(c, NoErr, Present(c, key))

(***************************************************************************)
(* LightKube: the backend that talks to the API with typed objects.        *)
(***************************************************************************)
\* The namespace the client works in when the call names none.
ClientNamespace(ns) == IF ns = None THEN self_namespace ELSE ns

L_get_service_account(c, account_id, ns) ==
  LET key == Key(SERVICEACCOUNT, ClientNamespace(ns), account_id)
  IN IF ~Present(c, key)
     THEN Res(c, K8sResourceNotFound(account_id, SERVICEACCOUNT), None)
     ELSE Res(c, NoErr, Raw(c, key))

L_get_service_accounts(c, ns, labels) ==
  LET scope == IF ns = None THEN "default" ELSE ns
      listed(p) ==
        /\ p[1] = scope
        /\ Present(c, Key(SERVICEACCOUNT, p[1], p[2]))
        /\ MatchLabels(c[Key(SERVICEACCOUNT, p[1], p[2])], labels)
      keys == SelectSeq(ListingOrder, listed)
  IN Res(c, NoErr,
         [i \in DOMAIN keys |-> Raw(c, Key(SERVICEACCOUNT, keys[i][1], keys[i][2]))])

L_get_secret(c, secret_name, ns) ==
  LET key == Key(SECRET, ClientNamespace(ns), secret_name)
  IN IF ~Present(c, key) THEN Res(c, ApiError(404), None)
     ELSE IF c[key].data = NoData THEN Res(c, KeyError("data"), None)
     ELSE Res(c, NoErr,
              [Raw(c, key) EXCEPT
                 !.data = [k \in DOMAIN c[key].data |-> B64Decode(c[key].data[k])]])

L_set_label(c, resource_type, resource_name, label, ns) ==
  LET key == Key(resource_type, ClientNamespace(ns), resource_name)
      p == ParseLabel(label)
      r == ApiMergeLabel(c, key, p[1], p[2])
  IN IF resource_type \notin {SERVICEACCOUNT, ROLE, ROLEBINDING}
     THEN Res(c, NotImplementedError(resource_type), None)
     ELSE IF r.status = 200 THEN Res(r.c, NoErr, None)
     ELSE Res(c, ApiError(r.status), None)

L_remove_label(c, resource_type, resource_name, label, ns) ==
  LET key == Key(resource_type, ClientNamespace(ns), resource_name)
      r == ApiJsonRemoveLabel(c, key, label)
  IN IF resource_type \notin {SERVICEACCOUNT, ROLE, ROLEBINDING}
     THEN Res(c, NotImplementedError(resource_type), None)
     ELSE IF r.status = 200 THEN Res(r.c, NoErr, None)
     ELSE Res(c, ApiError(r.status), None)

L_create(c, resource_type, resource_name, ns, extra_args) ==
  LET key == IF resource_type = NAMESPACE THEN NsKey(resource_name)
             ELSE Key(StoredKind(resource_type), ClientNamespace(ns), resource_name)
      data == IF resource_type \in {SECRET, SECRET_GENERIC}
              THEN SecretData(extra_args.from_env_file) ELSE NoData
      r == ApiCreate(c, key, Obj(NoLabels, data))
  IN IF resource_type \notin KubernetesResourceType
     THEN Res(c, NotImplementedError(resource_type), None)
     ELSE IF r.status = 201 THEN Res(r.c, NoErr, None)
     ELSE Res(c, ApiError(r.status), None)

L_delete(c, resource_type, resource_name, ns) ==
  LET key == IF resource_type = NAMESPACE THEN NsKey(resource_name)
             ELSE Key(StoredKind(resource_type), ClientNamespace(ns), resource_name)
      r == ApiDelete(c, key)
  IN IF resource_type \notin KubernetesResourceType
     THEN Res(c, NotImplementedError(resource_type), None)
     ELSE IF r.status = 200 THEN Res(r.c, NoErr, None)
     ELSE Res(c, ApiError(r.status), None)

\* client.get: False on an ApiError whose message says "not found";
\* a namespace argument is refused for the kind Namespace.
L_exists(c, resource_type, resource_name, ns) ==
  LET key == IF resource_type = NAMESPACE THEN NsKey(resource_name)
             ELSE Key(StoredKind(resource_type), ClientNamespace(ns), resource_name)
  IN IF resource_type \notin KubernetesResourceType
     THEN Res(c, KeyError(resource_type), None)
     ELSE IF ns # None /\ resource_type = NAMESPACE
     THEN Res(c, Err("ValueError", resource_type, ""), None)
     ELSE Res(c, NoErr, Present(c, key))

(***************************************************************************)
(* AbstractKubeInterface: a call on the backend b.                         *)
(***************************************************************************)
get_service_account(b, c, account_id, ns) ==
  IF b = "kubectl" THEN K_get_service_account(c, account_id, ns)
  ELSE L_get_service_account(c, account_id, ns)

\* A listing that does not select by label.
get_service_accounts_unselected(b, c, ns, labels) ==
  IF b = "kubectl" THEN K_get_service_accounts(c, ns, <<>>)
  ELSE L_get_service_accounts(c, ns, <<>>)

get_service_accounts(b, c, ns, labels) ==
  IF b = "kubectl" THEN K_get_service_accounts(c, ns, labels)
  ELSE L_get_service_accounts(c, ns, labels)

get_secret(b, c, secret_name, ns) ==
  IF b = "kubectl" THEN K_get_secret(c, secret_name, ns)
  ELSE L_get_secret(c, secret_name, ns)

set_label(b, c, resource_type, resource_name, label, ns) ==
  IF b = "kubectl" THEN K_set_label(c, resource_type, resource_name, label, ns)
  ELSE L_set_label(c, resource_type, resource_name, label, ns)

remove_label(b, c, resource_type, resource_name, label, ns) ==
  IF b = "kubectl" THEN K_remove_label(c, resource_type, resource_name, label, ns)
  ELSE L_remove_label(c, resource_type, resource_name, label, ns)

create(b, c, resource_type, resource_name, ns, extra_args) ==
  IF b = "kubectl" THEN K_create(c, resource_type, resource_name, ns, extra_args)
  ELSE L_create(c, resource_type, resource_name, ns, extra_args)

delete(b, c, resource_type, resource_name, ns) ==
  IF b = "kubectl" THEN K_delete(c, resource_type, resource_name, ns)
  ELSE L_delete(c, resource_type, resource_name, ns)

\* An exists that lets the not-found error of the transport through.
exists_raising(b, c, resource_type, resource_name, ns) ==
  IF Present(c, IF resource_type = NAMESPACE THEN NsKey(resource_name)
                 ELSE Key(StoredKind(resource_type), ClientNamespace(ns),
                          resource_name))
  THEN Res(c, NoErr, TRUE)
  ELSE Res(c, ApiError(404), None)

exists(b, c, resource_type, resource_name, ns) ==
  IF b = "kubectl" THEN K_exists(c, resource_type, resource_name, ns)
  ELSE L_exists(c, resource_type, resource_name, ns)

\* A backend call under the faults F of the transport: the call numbered i
\* fails without effect when i is in F.
Call(F, i, c, r) == IF i \in F THEN Res(c, TransportFault, None) ELSE r

(***************************************************************************)
(* The encoding of configuration keys (PercentEncodingSerializer("_")).    *)
(***************************************************************************)
EncodeChar(ch) ==
  IF ch = "_" THEN <<"_", "_">>
  ELSE IF ch = "." THEN <<"_", "2", "E">>
  ELSE IF ch = "/" THEN <<"_", "2", "F">>
  ELSE <<ch>>

RECURSIVE serialize(_)
serialize(s) ==
  IF s = <<>> THEN <<>> ELSE EncodeChar(Head(s)) \o serialize(Tail(s))

RECURSIVE deserialize(_)
deserialize(s) ==
  IF s = <<>> THEN <<>>
  ELSE IF Head(s) = "_" /\ Len(s) >= 2 /\ s[2] = "_"
  THEN <<"_">> \o deserialize(SubSeq(s, 3, Len(s)))
  ELSE IF Head(s) = "_" /\ Len(s) >= 3 /\ s[2] = "2" /\ s[3] = "E"
  THEN <<".">> \o deserialize(SubSeq(s, 4, Len(s)))
  ELSE IF Head(s) = "_" /\ Len(s) >= 3 /\ s[2] = "2" /\ s[3] = "F"
  THEN <<"/">> \o deserialize(SubSeq(s, 4, Len(s)))
  ELSE <<Head(s)>> \o deserialize(Tail(s))

(***************************************************************************)
(* ServiceAccount and its id.                                              *)
(***************************************************************************)
ServiceAccount(name, ns, primary, extra_confs) ==
  [name |-> name, namespace |-> ns, primary |-> primary, extra_confs |-> extra_confs]

\* ServiceAccount.id: f"{namespace}:{name}"
id(ns, name) == ns \o ":" \o name

\* account_id.split(":"): <<namespace, name>>
split(account_id) ==
  CHOOSE p \in Namespaces \X Names : id(p[1], p[2]) = account_id

\* The keys of the two entries that bind a job to the account.
ServiceAccountNameKey == <<"spark.kubernetes.authenticate.driver.serviceAccountName">>
NamespaceKey == <<"spark.kubernetes.namespace">>

\* PropertyFile + PropertyFile: the entries of both, those of the right
\* operand for a key that both hold.
PropertyFileAdd(p, q) ==
  [k \in DOMAIN p \cup DOMAIN q |-> IF k \in DOMAIN q THEN q[k] ELSE p[k]]

\* Injected entries with the name and the namespace exchanged.
k8s_configurations_exchanged(account) ==
  (ServiceAccountNameKey :> account.namespace) @@ (NamespaceKey :> account.name)

\* ServiceAccount._k8s_configurations
k8s_configurations(account) ==
  (ServiceAccountNameKey :> account.name) @@ (NamespaceKey :> account.namespace)

\* ServiceAccount.configurations
ServiceAccount_configurations(account) ==
  PropertyFileAdd(account.extra_confs, k8s_configurations(account))

\* The accounts the operations are called on: one in the namespace of the
\* context, two that share another namespace.
AccountIds == {id("default", "a"), id("ns1", "a"), id("ns1", "b")}

(***************************************************************************)
(* K8sServiceAccountRegistry over the backend b.                           *)
(***************************************************************************)
get_secret_name(name) == SPARK8S_LABEL \o "-sa-conf-" \o name

\* A reading that keeps the keys as the Secret stores them: the round trip
\* of the configuration keys does not survive it.
configurations_stored(r) ==
  IF ~Ok(r) THEN EmptyConf ELSE r.val.data

\* The configuration read from the Secret r holds; empty when reading it
\* raised (except Exception: return PropertyFile.empty()).
configurations_of(r) ==
  IF ~Ok(r) THEN EmptyConf
  ELSE [k \in {deserialize(x) : x \in DOMAIN r.val.data} |->
          r.val.data[CHOOSE x \in DOMAIN r.val.data : deserialize(x) = k]]

retrieve_account_configurations(b, c, name, ns) ==
  configurations_of(get_secret(b, c, get_secret_name(name), ns))

\* A build that lets the error of reading the configuration Secret through.
build_service_account_from_raw_raising(b, c, metadata) ==
  IF metadata.labels = NoLabels THEN Res(c, KeyError("labels"), <<>>)
  ELSE IF ~Ok(get_secret(b, c, get_secret_name(metadata.name), metadata.namespace))
  THEN Res(c, get_secret(b, c, get_secret_name(metadata.name),
                         metadata.namespace).err, <<>>)
  ELSE Res(c, NoErr,
           <<ServiceAccount(metadata.name, metadata.namespace,
                            PRIMARY_LABELNAME \in DOMAIN metadata.labels,
                            retrieve_account_configurations(
                              b, c, metadata.name, metadata.namespace))>>)

build_service_account_from_raw(b, c, metadata) ==
  IF metadata.labels = NoLabels THEN Res(c, KeyError("labels"), <<>>)
  ELSE Res(c, NoErr,
           <<ServiceAccount(metadata.name, metadata.namespace,
                            PRIMARY_LABELNAME \in DOMAIN metadata.labels,
                            retrieve_account_configurations(
                              b, c, metadata.name, metadata.namespace))>>)

\* The accounts built from the listed Identities; the first error raised
\* while building them, if any.
all_built(c, built) ==
  IF \E i \in DOMAIN built : ~Ok(built[i])
  THEN Res(c, built[CHOOSE i \in DOMAIN built :
                      ~Ok(built[i]) /\ \A j \in 1..(i - 1) : Ok(built[j])].err,
           <<>>)
  ELSE Res(c, NoErr, [i \in DOMAIN built |-> built[i].val[1]])

all_listed(b, c, l) ==
  IF ~Ok(l) THEN Res(c, l.err, <<>>)
  ELSE all_built(c, [i \in DOMAIN l.val |->
                       build_service_account_from_raw(b, c, l.val[i].metadata)])

R_all(b, c, ns) ==
  all_listed(b, c,
             get_service_accounts(b, c, ns,
                                  <<Label(MANAGED_BY_LABELNAME, SPARK8S_LABEL)>>))

\* get, from the outcome r of get_service_account: empty on
\* K8sResourceNotFound, any other error raised.
get_found(b, c, r) ==
  IF r.err.type = "K8sResourceNotFound" THEN Res(c, NoErr, <<>>)
  ELSE IF ~Ok(r) THEN Res(c, r.err, <<>>)
  ELSE build_service_account_from_raw(b, c, r.val.metadata)

R_get(b, c, account_id) ==
  get_found(b, c,
            get_service_account(b, c, split(account_id)[2], split(account_id)[1]))

\* A get_primary that settles duplicates by the last primary listed.
last_primary(c, a) ==
  LET primary_accounts == SelectSeq(a.val, LAMBDA account : account.primary)
  IN IF ~Ok(a) THEN a
     ELSE IF Len(a.val) = 0 THEN Res(c, NoErr, <<>>)
     ELSE IF Len(primary_accounts) = 0 THEN Res(c, NoErr, <<>>)
     ELSE Res(c, NoErr, <<primary_accounts[Len(primary_accounts)]>>)

\* get_primary, from the outcome a of all(namespace).
first_primary(c, a) ==
  LET primary_accounts == SelectSeq(a.val, LAMBDA account : account.primary)
  IN IF ~Ok(a) THEN a
     ELSE IF Len(a.val) = 0 THEN Res(c, NoErr, <<>>)
     ELSE IF Len(primary_accounts) = 0 THEN Res(c, NoErr, <<>>)
     ELSE Res(c, NoErr, <<primary_accounts[1]>>)

R_get_primary(b, c, ns) == first_primary(c, R_all(b, c, ns))

\* A call of an operation: made on the cluster the calls before it left,
\* and not made when one of them raised (r carries the error).
create_call(F, i, b, r, resource_type, resource_name, ns, extra_args) ==
  IF ~Ok(r) THEN r
  ELSE Call(F, i, r.c, create(b, r.c, resource_type, resource_name, ns, extra_args))

set_label_call(F, i, b, r, resource_type, resource_name, label, ns) ==
  IF ~Ok(r) THEN r
  ELSE Call(F, i, r.c, set_label(b, r.c, resource_type, resource_name, label, ns))

remove_label_call(F, i, b, r, resource_type, resource_name, label, ns) ==
  IF ~Ok(r) THEN r
  ELSE Call(F, i, r.c, remove_label(b, r.c, resource_type, resource_name, label, ns))

\* A deletion whose failure is raised.
delete_raised(F, i, b, r, resource_type, resource_name, ns) ==
  IF ~Ok(r) THEN r
  ELSE Call(F, i, r.c, delete(b, r.c, resource_type, resource_name, ns))

\* try: delete(...) except Exception: the error is dropped.
delete_caught(F, i, b, r, resource_type, resource_name, ns) ==
  IF ~Ok(r) THEN r
  ELSE Res(Call(F, i, r.c, delete(b, r.c, resource_type, resource_name, ns)).c,
           NoErr, None)

\* set_primary, first half: the primary label is taken from the account p
\* that get_primary(namespace) returned (calls o+1, o+2).
remove_primary(b, c, p, F, o) ==
  IF ~Ok(p) THEN Res(c, p.err, None)
  ELSE IF p.val = <<>> THEN Res(c, NoErr, None)
  ELSE remove_label_call(
         F, o + 2, b,
         remove_label_call(F, o + 1, b, Res(c, NoErr, None), SERVICEACCOUNT,
                           p.val[1].name, PRIMARY_LABELNAME, p.val[1].namespace),
         ROLEBINDING, p.val[1].name \o "-role-binding", PRIMARY_LABELNAME,
         p.val[1].namespace)

\* A second half that does not look at what get(account_id) returned: an
\* unknown id is not refused.
label_primary_unresolved(b, r, g, account_id, F, o) ==
  IF ~Ok(g) THEN Res(r.c, g.err, None)
  ELSE set_label_call(
         F, o + 4, b,
         set_label_call(F, o + 3, b, r, SERVICEACCOUNT, split(account_id)[2],
                        Label(PRIMARY_LABELNAME, "True"), split(account_id)[1]),
         ROLEBINDING, split(account_id)[2] \o "-role-binding",
         Label(PRIMARY_LABELNAME, "True"), split(account_id)[1])

\* A second half that labels the Identity and not the RoleBinding.
label_primary_identity_only(b, r, g, account_id, F, o) ==
  IF ~Ok(g) THEN Res(r.c, g.err, None)
  ELSE IF g.val = <<>> THEN Res(r.c, AccountNotFound(account_id), None)
  ELSE set_label_call(F, o + 3, b, r, SERVICEACCOUNT, g.val[1].name,
                      Label(PRIMARY_LABELNAME, "True"), g.val[1].namespace)

\* set_primary, second half: the account g that get(account_id) returned
\* is labeled (calls o+3, o+4), AccountNotFound when g is empty.
label_primary(b, r, g, account_id, F, o) ==
  IF ~Ok(g) THEN Res(r.c, g.err, None)
  ELSE IF g.val = <<>> THEN Res(r.c, AccountNotFound(account_id), None)
  ELSE set_label_call(
         F, o + 4, b,
         set_label_call(F, o + 3, b, r, SERVICEACCOUNT, g.val[1].name,
                        Label(PRIMARY_LABELNAME, "True"), g.val[1].namespace),
         ROLEBINDING, g.val[1].name \o "-role-binding",
         Label(PRIMARY_LABELNAME, "True"), g.val[1].namespace)

\* set_primary after its first half left r.
set_primary_target(b, r, account_id, F, o) ==
  IF ~Ok(r) THEN r
  ELSE label_primary(b, r, R_get(b, r.c, account_id), account_id, F, o)

Returns(r, val) == IF Ok(r) THEN Res(r.c, NoErr, val) ELSE r

R_set_primary(b, c, account_id, ns, F, o) ==
  Returns(set_primary_target(
            b, remove_primary(b, c, R_get_primary(b, c, ns), F, o),
            account_id, F, o),
          account_id)

\* The property file written for the Secret: the keys serialized.
SerializedProps(extra_confs) ==
  [k \in {serialize(x) : x \in DOMAIN extra_confs} |->
     extra_confs[CHOOSE x \in DOMAIN extra_confs : serialize(x) = k]]

\* A replacement that keeps the entries of the old Secret that the new
\* configuration does not set.
create_account_configuration_merging(b, c, service_account, F, o) ==
  LET key == Key(SECRET, service_account.namespace,
                 get_secret_name(service_account.name))
      data == SecretData(SerializedProps(service_account.extra_confs))
  IN IF Present(c, key)
     THEN Res([c EXCEPT ![key].data =
                 [k \in DOMAIN data \cup DOMAIN @ |->
                    IF k \in DOMAIN data THEN data[k] ELSE @[k]]],
              NoErr, None)
     ELSE create_call(F, o + 2, b, Res(c, NoErr, None), SECRET_GENERIC,
                      get_secret_name(service_account.name),
                      service_account.namespace,
                      [from_env_file |-> SerializedProps(service_account.extra_confs)])

\* A replacement of the Secret that also takes the primary label from the
\* Identity of the account.
create_account_configuration_demoting(b, c, service_account, F, o) ==
  create_call(
    F, o + 2, b,
    delete_caught(F, o + 1, b,
                  Res(ApiJsonRemoveLabel(
                        c, Key(SERVICEACCOUNT, service_account.namespace,
                               service_account.name), PRIMARY_LABELNAME).c,
                      NoErr, None),
                  SECRET, get_secret_name(service_account.name),
                  service_account.namespace),
    SECRET_GENERIC, get_secret_name(service_account.name),
    service_account.namespace,
    [from_env_file |-> SerializedProps(service_account.extra_confs)])

\* The calls are numbered o+1 (delete of the old Secret, its error dropped)
\* and o+2 (create).
create_account_configuration(b, c, service_account, F, o) ==
  create_call(
    F, o + 2, b,
    delete_caught(F, o + 1, b, Res(c, NoErr, None), SECRET,
                  get_secret_name(service_account.name), service_account.namespace),
    SECRET_GENERIC, get_secret_name(service_account.name),
    service_account.namespace,
    [from_env_file |-> SerializedProps(service_account.extra_confs)])

R_set_configurations(b, c, account_id, configurations, F, o) ==
  Returns(create_account_configuration(
            b, c,
            ServiceAccount(split(account_id)[2], split(account_id)[1], FALSE,
                           configurations),
            F, o),
          account_id)

\* The same six calls with the Role created before the Identity.
create_resources_role_first(b, c, service_account, F) ==
  LET username == service_account.name
      ns == service_account.namespace
      rolename == username \o "-role"
      rolebindingname == username \o "-role-binding"
      managed == Label(MANAGED_BY_LABELNAME, SPARK8S_LABEL)
      r1 == create_call(F, 1, b, Res(c, NoErr, None), ROLE, rolename, ns,
                        [resource |-> <<"pods", "configmaps", "services">>,
                         verb |-> <<"create", "get", "list", "watch", "delete">>])
      r2 == create_call(F, 2, b, r1, SERVICEACCOUNT, username, ns,
                        [username |-> username])
      r3 == create_call(F, 3, b, r2, ROLEBINDING, rolebindingname, ns,
                        [role |-> rolename,
                         serviceaccount |-> id(ns, username),
                         username |-> username])
      r4 == set_label_call(F, 4, b, r3, SERVICEACCOUNT, username, managed, ns)
      r5 == set_label_call(F, 5, b, r4, ROLE, rolename, managed, ns)
  IN set_label_call(F, 6, b, r5, ROLEBINDING, rolebindingname, managed, ns)

\* create, steps 1 to 6: the three resources, then the three labels.
create_resources(b, c, service_account, F) ==
  LET username == service_account.name
      ns == service_account.namespace
      rolename == username \o "-role"
      rolebindingname == username \o "-role-binding"
      managed == Label(MANAGED_BY_LABELNAME, SPARK8S_LABEL)
      r1 == create_call(F, 1, b, Res(c, NoErr, None), SERVICEACCOUNT, username, ns,
                        [username |-> username])
      r2 == create_call(F, 2, b, r1, ROLE, rolename, ns,
                        [resource |-> <<"pods", "configmaps", "services">>,
                         verb |-> <<"create", "get", "list", "watch", "delete">>])
      r3 == create_call(F, 3, b, r2, ROLEBINDING, rolebindingname, ns,
                        [role |-> rolename,
                         serviceaccount |-> id(ns, username),
                         username |-> username])
      r4 == set_label_call(F, 4, b, r3, SERVICEACCOUNT, username, managed, ns)
      r5 == set_label_call(F, 5, b, r4, ROLE, rolename, managed, ns)
  IN set_label_call(F, 6, b, r5, ROLEBINDING, rolebindingname, managed, ns)

\* create, step 7: if service_account.primary is True: set_primary(id, namespace)
create_primary(b, r, service_account, F) ==
  IF ~Ok(r) \/ ~service_account.primary THEN r
  ELSE R_set_primary(b, r.c, id(service_account.namespace, service_account.name),
                     service_account.namespace, F, 6)

\* create, step 8: if len(extra_confs) > 0: set_configurations(id, extra_confs)
create_configurations(b, r, service_account, F) ==
  IF ~Ok(r) \/ service_account.extra_confs = EmptyConf THEN r
  ELSE R_set_configurations(b, r.c,
                            id(service_account.namespace, service_account.name),
                            service_account.extra_confs, F, 10)

\* The calls are numbered 1 .. 6, then those of set_primary (7 .. 10) and
\* of set_configurations (11, 12).
R_create(b, c, service_account, F) ==
  Returns(create_configurations(
            b,
            create_primary(b, create_resources(b, c, service_account, F),
                           service_account, F),
            service_account, F),
          id(service_account.namespace, service_account.name))

\* A delete that leaves the configuration Secret of the account.
R_delete_keeping_secret(b, c, account_id, F) ==
  LET ns == split(account_id)[1]
      name == split(account_id)[2]
      r1 == delete_caught(F, 1, b, Res(c, NoErr, None), SERVICEACCOUNT, name, ns)
      r2 == delete_caught(F, 2, b, r1, ROLE, name \o "-role", ns)
  IN Returns(delete_caught(F, 3, b, r2, ROLEBINDING, name \o "-role-binding", ns),
             account_id)

\* A delete that takes the Identity called name-role for the Role of name.
R_delete_by_name(b, c, account_id, F) ==
  LET ns == split(account_id)[1]
      name == split(account_id)[2]
      r1 == delete_caught(F, 1, b, Res(c, NoErr, None), SERVICEACCOUNT, name, ns)
      r2 == delete_caught(F, 2, b, r1, SERVICEACCOUNT, name \o "-role", ns)
      r3 == delete_caught(F, 3, b, r2, ROLEBINDING, name \o "-role-binding", ns)
  IN Returns(delete_caught(F, 4, b, r3, SECRET, get_secret_name(name), ns),
             account_id)

\* The four deletions are numbered 1 .. 4; the failure of each is caught.
R_delete(b, c, account_id, F) ==
  LET ns == split(account_id)[1]
      name == split(account_id)[2]
      r1 == delete_caught(F, 1, b, Res(c, NoErr, None), SERVICEACCOUNT, name, ns)
      r2 == delete_caught(F, 2, b, r1, ROLE, name \o "-role", ns)
      r3 == delete_caught(F, 3, b, r2, ROLEBINDING, name \o "-role-binding", ns)
  IN Returns(delete_caught(F, 4, b, r3, SECRET, get_secret_name(name), ns),
             account_id)

(***************************************************************************)
(* The state machine.  backend is the backend the registry was built on,   *)
(* cluster the cluster, last the last operation with its arguments, the    *)
(* faults it met and its outcome, n the number of operations that wrote to *)
(* the cluster.                                                            *)
(***************************************************************************)
\* How much of an account is in the cluster: "full" (Identity, Role and
\* RoleBinding), "identity" (the Identity, not all three), "remnant" (no
\* Identity, another of its resources), "absent".
Presence(c, account_id) ==
  LET p == split(account_id)
      identity == Key(SERVICEACCOUNT, p[1], p[2])
      three == {identity,
                Key(ROLE, p[1], p[2] \o "-role"),
                Key(ROLEBINDING, p[1], p[2] \o "-role-binding")}
      secret == Key(SECRET, p[1], get_secret_name(p[2]))
  IN IF three \subseteq DOMAIN c THEN "full"
     ELSE IF identity \in DOMAIN c THEN "identity"
     ELSE IF (three \cup {secret}) \cap DOMAIN c = {} THEN "absent"
     ELSE "remnant"

\* (The record of a set_configurations has one more field, was: the
\* configuration that the account had before the call.)
Record(op, account_id, ns, primary, confs, F, pre, r) ==
  [op |-> op, id |-> account_id, ns |-> ns, primary |-> primary, confs |-> confs,
   F |-> F, pre |-> pre, err |-> r.err, ret |-> r.val]

NoOp == [op |-> "none", id |-> None, ns |-> None, primary |-> FALSE,
         confs |-> EmptyConf, F |-> {}, pre |-> None, err |-> NoErr, ret |-> None]

Init ==
  /\ backend \in Backends
  /\ cluster = EmptyCluster
  /\ last = NoOp
  /\ n = 0

\* An operation that writes to the cluster.
Write(r, l) ==
  /\ cluster' = r.c
  /\ last' = l
  /\ n' = n + 1
  /\ UNCHANGED backend

\* An operation that reads the cluster.
Read(l) ==
  /\ last' = l
  /\ UNCHANGED <<backend, cluster, n>>

NoFaults == {{}}

Create(Ids, ConfSet, Faults) ==
  \E account_id \in Ids, primary \in BOOLEAN, confs \in ConfSet, F \in Faults :
    LET p == split(account_id)
        r == R_create(backend, cluster, ServiceAccount(p[2], p[1], primary, confs), F)
    IN Write(r, Record("create", account_id, None, primary, confs, F,
                       Presence(cluster, account_id), r))

SetPrimary(Ids, NsArgs, Faults) ==
  \E account_id \in Ids, ns \in NsArgs, F \in Faults :
    LET r == R_set_primary(backend, cluster, account_id, ns, F, 0)
    IN Write(r, Record("set_primary", account_id, ns, FALSE, EmptyConf, F,
                       Presence(cluster, account_id), r))

SetConfigurations(Ids, ConfSet, Faults) ==
  \E account_id \in Ids, confs \in ConfSet, F \in Faults :
    LET r == R_set_configurations(backend, cluster, account_id, confs, F, 0)
    IN Write(r, Record("set_configurations", account_id, None, FALSE, confs, F,
                       Presence(cluster, account_id), r)
                  @@ [was |-> retrieve_account_configurations(
                                backend, cluster, split(account_id)[2],
                                split(account_id)[1])])

Delete(Ids, Faults) ==
  \E account_id \in Ids, F \in Faults :
    LET r == R_delete(backend, cluster, account_id, F)
    IN Write(r, Record("delete", account_id, None, FALSE, EmptyConf, F,
                       Presence(cluster, account_id), r))

Get(Ids) ==
  \E account_id \in Ids :
    LET r == R_get(backend, cluster, account_id)
    IN Read(Record("get", account_id, None, FALSE, EmptyConf, {},
                   Presence(cluster, account_id), r))

All ==
  \E ns \in {None} \cup Namespaces :
    LET r == R_all(backend, cluster, ns)
    IN Read(Record("all", None, ns, FALSE, EmptyConf, {}, None, r))

GetPrimary ==
  \E ns \in {None} \cup Namespaces :
    LET r == R_get_primary(backend, cluster, ns)
    IN Read(Record("get_primary", None, ns, FALSE, EmptyConf, {}, None, r))

\* Fault-free, one caller: the operations of the registry on every account.
Next ==
  \/ n < MaxOps /\ Create(AccountIds, Confs, NoFaults)
  \/ n < MaxOps /\ SetPrimary(AccountIds, {None} \cup Namespaces, NoFaults)
  \/ n < MaxOps /\ SetConfigurations(AccountIds, Confs, NoFaults)
  \/ n < MaxOps /\ Delete(AccountIds, NoFaults)
  \/ Get(AccountIds)
  \/ All
  \/ GetPrimary

Spec == Init /\ [][Next]_vars

\* Fault-free, one caller, accounts without configurations: the sequences
\* of create / set_primary / set_configurations / delete are longer here.
NextPrimary ==
  \/ n < MaxPrimaryOps /\ Create(AccountIds, {EmptyConf}, NoFaults)
  \/ n < MaxPrimaryOps /\ SetPrimary(AccountIds, {None} \cup Namespaces, NoFaults)
  \/ n < MaxPrimaryOps /\ SetConfigurations({id("ns1", "a")}, {ConfA}, NoFaults)
  \/ n < MaxPrimaryOps /\ Delete({id("ns1", "a")}, NoFaults)
  \/ GetPrimary

SpecPrimary == Init /\ [][NextPrimary]_vars

\* An Identity created in the cluster by someone else than the registry:
\* it carries no label.
ExternalIdentity(Ids) ==
  \E account_id \in Ids :
    LET p == split(account_id)
        r == ApiCreate(cluster, Key(SERVICEACCOUNT, p[1], p[2]), Obj(NoLabels, NoData))
    IN /\ r.status = 201
       /\ Write(Res(r.c, NoErr, None),
                Record("external", account_id, None, FALSE, EmptyConf, {},
                       Presence(cluster, account_id), Res(r.c, NoErr, None)))

\* The calls of create that fail: none; the creation of the Role (the
\* Identity is left alone and unlabeled); the labeling of the Role (the
\* three resources are left, the Identity labeled); the creation of the
\* Secret (the account is left without its configuration).
CreateFaults == {{}, {2}, {5}, {12}}

\* The calls of delete that fail: none; the deletion of the Identity.
DeleteFaults == {{}, {1}}

\* Backend calls can fail, and Identities appear that the registry did not
\* create.
NextFault ==
  \/ n < MaxFaultOps /\ Create(AccountIds, {EmptyConf, ConfA}, CreateFaults)
  \/ n < MaxFaultOps /\ Delete(AccountIds, DeleteFaults)
  \/ n < MaxFaultOps /\ ExternalIdentity(AccountIds)
  \/ Get(AccountIds)
  \/ All

SpecFault == Init /\ [][NextFault]_vars

\* The calls of create that write to the cluster, as R_create numbers them.
CreateCalls == 1 .. 12

\* At most one call of a create fails.
SingleFaults == {{}} \cup {{k} : k \in CreateCalls}

\* The account ns1:a is created, primary or not, with or without
\* configurations, and any one of the calls of its creation can fail; the
\* account ns1:b is its neighbour in the namespace, created without fault.
NextCreate ==
  \/ n < MaxCreateOps /\ Create({id("ns1", "b")}, {EmptyConf}, NoFaults)
  \/ n < MaxCreateOps /\ Create({id("ns1", "a")}, {EmptyConf, ConfA}, SingleFaults)
  \/ Get({id("ns1", "a")})

SpecCreate == Init /\ [][NextCreate]_vars

\* The four deletions of delete, as R_delete numbers them.
DeleteCalls == 1 .. 4

\* Any of the deletions can fail, together or alone.
AnyFaults == SUBSET DeleteCalls

\* The account ns1:a is created, with or without configurations, and
\* deleted while any subset of the four deletions fails.
NextDelete ==
  \/ n < MaxDeleteOps /\ Create({id("ns1", "a")}, {EmptyConf, ConfA}, NoFaults)
  \/ n < MaxDeleteOps /\ Delete({id("ns1", "a")}, AnyFaults)
  \/ Get({id("ns1", "a")})

SpecDelete == Init /\ [][NextDelete]_vars

\* The four relabelings of set_primary, as R_set_primary numbers them.
RelabelCalls == 1 .. 4

\* At most one relabeling of a set_primary fails.
RelabelFaults == {{}} \cup {{k} : k \in RelabelCalls}

\* The accounts of the namespace ns1 are created, primary or not, and the
\* primary is moved between them while any one relabeling can fail.
NextRelabel ==
  \/ n < MaxRelabelOps
       /\ Create({id("ns1", "a"), id("ns1", "b")}, {EmptyConf}, NoFaults)
  \/ n < MaxRelabelOps
       /\ SetPrimary({id("ns1", "a"), id("ns1", "b")}, {"ns1"}, RelabelFaults)

SpecRelabel == Init /\ [][NextRelabel]_vars

(***************************************************************************)
(* The kube config of a backend and select_by_master.  A kube config has   *)
(* a list of contexts (name, cluster, and a namespace or none), a list of   *)
(* clusters (name, server) and a current context; names are unique in each *)
(* list and every context names a cluster of the list.  A backend instance *)
(* is the config and the context name it was built with (None: the         *)
(* current context).                                                       *)
(***************************************************************************)
ContextNames == [i \in 1 .. MaxContexts |-> "ctx" \o ToString(i)]
ClusterNames == <<"k1", "k2">>
Servers == {"https://s1", "https://s2"}
Masters == Servers \cup {"https://s3"}

\* The contexts that name a namespace: none, the first, the second.
NamespacedContexts == {{}, {1}, {2}}

KubeConfigs ==
  {[contexts |-> [i \in DOMAIN ContextNames |->
                    [name |-> ContextNames[i], cluster |-> ClusterNames[of[i]],
                     namespace |-> IF i \in namespaced THEN "ns1" ELSE None]],
    clusters |-> [i \in DOMAIN ClusterNames |->
                    [name |-> ClusterNames[i], server |-> server[i]]],
    current_context |-> ContextNames[current]] :
     of \in [DOMAIN ContextNames -> DOMAIN ClusterNames],
     server \in [DOMAIN ClusterNames -> Servers],
     current \in DOMAIN ContextNames,
     namespaced \in NamespacedContexts}

Instance(kube_config, name) == [kube_config |-> kube_config, _context_name |-> name]

Instances ==
  {Instance(kube_config, name) :
     kube_config \in KubeConfigs,
     name \in {None} \cup {ContextNames[i] : i \in DOMAIN ContextNames}}

\* with_context builds a new KubeInterface / LightKube ...
with_context(self, name) == Instance(self.kube_config, name)

\* A with_context that rebinds the receiver: self._context_name = name.
with_context_rebound(self, name) == Instance(self.kube_config, name)

\* ... and assigns nothing to self: the receiver after the call.
with_context_receiver(self, name) ==
  self

context_name(self) ==
  IF self._context_name = None THEN self.kube_config.current_context
  ELSE self._context_name

\* [... for context in contexts if context["name"] == context_name][0]
context(self) ==
  SelectSeq(self.kube_config.contexts,
            LAMBDA x : x.name = context_name(self))[1]

\* [... for cluster in clusters if cluster["name"] == context["cluster"]][0]
current_cluster(self) ==
  SelectSeq(self.kube_config.clusters,
            LAMBDA x : x.name = context(self).cluster)[1]

api_server(self) == current_cluster(self).server

\* context.get("namespace", "default")
namespace(self) ==
  IF context(self).namespace = None THEN "default" ELSE context(self).namespace

\* {cluster["name"]: cluster["cluster"]["server"] for cluster in clusters}:
\* of two entries of one name the later stays.
api_servers_clusters(kube_config) ==
  [name \in {kube_config.clusters[i].name : i \in DOMAIN kube_config.clusters} |->
     LET entries == SelectSeq(kube_config.clusters, LAMBDA x : x.name = name)
     IN entries[Len(entries)].server]

contexts_for_api_server(kube_config, master) ==
  LET matching ==
        SelectSeq(kube_config.contexts,
                  LAMBDA x : api_servers_clusters(kube_config)[x.cluster] = master)
  IN [i \in DOMAIN matching |-> matching[i].name]

InSeq(x, seq) == \E i \in DOMAIN seq : seq[i] = x

\* A select_by_master that binds to the first matching context whatever the
\* current context is.
select_by_master_rebinding(self, master) ==
  IF Len(contexts_for_api_server(self.kube_config, master)) = 0
  THEN [err |-> AccountNotFound(master), val |-> self, same |-> TRUE,
        receiver |-> self]
  ELSE [err |-> NoErr,
        val |-> with_context(self, contexts_for_api_server(self.kube_config, master)[1]),
        same |-> FALSE,
        receiver |-> with_context_receiver(
                       self, contexts_for_api_server(self.kube_config, master)[1])]

\* The outcome: the error raised, the backend returned (self when it
\* raises), whether that backend is the instance self, and the receiver
\* after the call.
select_by_master(self, master) ==
  IF Len(contexts_for_api_server(self.kube_config, master)) = 0
  THEN [err |-> AccountNotFound(master), val |-> self, same |-> TRUE,
        receiver |-> self]
  ELSE IF InSeq(context_name(self), contexts_for_api_server(self.kube_config, master))
  THEN [err |-> NoErr, val |-> self, same |-> TRUE, receiver |-> self]
  ELSE [err |-> NoErr,
        val |-> with_context(self, contexts_for_api_server(self.kube_config, master)[1]),
        same |-> FALSE,
        receiver |-> with_context_receiver(
                       self, contexts_for_api_server(self.kube_config, master)[1])]

\* last holds the backend instance in use (ret) and the call that gave it.
InitMaster ==
  /\ backend \in Backends
  /\ cluster = EmptyCluster
  /\ n = 0
  /\ \E self \in Instances :
       last = [op |-> "instance", self |-> self, master |-> None,
               err |-> NoErr, ret |-> self, same |-> TRUE, receiver |-> self]

\* kube_interface = kube_interface.select_by_master(master)
SelectByMaster ==
  \E master \in Masters :
    LET r == select_by_master(last.ret, master)
    IN Read([op |-> "select_by_master", self |-> last.ret, master |-> master,
             err |-> r.err, ret |-> r.val, same |-> r.same,
             receiver |-> r.receiver])

\* kube_interface = kube_interface.with_context(name)
WithContext ==
  \E i \in DOMAIN ContextNames :
    Read([op |-> "with_context", self |-> last.ret, master |-> None,
          err |-> NoErr, ret |-> with_context(last.ret, ContextNames[i]),
          same |-> FALSE,
          receiver |-> with_context_receiver(last.ret, ContextNames[i])])

\* A get / list / create / delete / label / exists call on the instance in
\* use: the methods read self.context_name and self.kube_config_file and
\* assign nothing to self.
UseBackend ==
  \E call \in {"get_service_account", "get_service_accounts", "get_secret",
               "set_label", "remove_label", "create", "delete", "exists"} :
    Read([op |-> call, self |-> last.ret, master |-> None, err |-> NoErr,
          ret |-> last.ret, same |-> TRUE, receiver |-> last.ret])

NextMaster ==
  \/ SelectByMaster
  \/ WithContext
  \/ UseBackend

SpecMaster == InitMaster /\ [][NextMaster]_vars

\* The two calls of set_configurations, as R_set_configurations numbers
\* them (the deletion of the old Secret, the creation of the new one): at
\* most one fails.
ConfigurationFaults == {{}, {1}, {2}}

\* The operations on the account ns1:a, any of which can stop at a backend
\* call that fails, with the account ns1:b as its neighbour: the states a
\* delete of ns1:a can find.
NextCleanup ==
  \/ n < MaxCleanupOps
       /\ Create({id("ns1", "a"), id("ns1", "b")}, {EmptyConf, ConfA}, CreateFaults)
  \/ n < MaxCleanupOps /\ SetPrimary({id("ns1", "a")}, {"ns1"}, RelabelFaults)
  \/ n < MaxCleanupOps
       /\ SetConfigurations({id("ns1", "a")}, {ConfA}, ConfigurationFaults)
  \/ n < MaxCleanupOps /\ Delete({id("ns1", "a")}, AnyFaults)
  \/ Get({id("ns1", "a")})

SpecCleanup == Init /\ [][NextCleanup]_vars

\* The accounts around ns1:a: one whose name extends its name, one of the
\* same name in another namespace.
FrameIds == {id("ns1", "a"), id("ns1", "a-role"), id("default", "a")}

\* The accounts are created, primary or not, with or without
\* configurations, and ns1:a is deleted while any subset of the four
\* deletions fails.
NextFrame ==
  \/ n < MaxFrameOps /\ Create(FrameIds, {EmptyConf, ConfA}, NoFaults)
  \/ n < MaxFrameOps /\ Delete({id("ns1", "a")}, AnyFaults)

SpecFrame == Init /\ [][NextFrame]_vars

(***************************************************************************)
(* Two callers of set_primary, with no lock between them: a step is one    *)
(* backend call of one caller (the listing of get_primary and the read of  *)
(* get count as one call each).  last holds, for each caller, the position *)
(* in set_primary (0: get_primary, 1 and 2: the two remove_label, 3: get,  *)
(* 4 and 5: the two set_label, 6: returned or raised), the account that    *)
(* get_primary returned and the error raised.                              *)
(***************************************************************************)
Callers == {1, 2}
ConcurrentTargets == <<id("ns1", "a"), id("ns1", "b")>>
Returned == 6

\* A step that also takes the primary label from the Identity of every
\* account of the namespace before it labels the target's.
set_primary_step_exclusive(b, c, pc, found, target) ==
  CASE pc = 0 -> R_get_primary(b, c, split(target)[1])
    [] pc = 1 -> remove_label(b, c, SERVICEACCOUNT, found[1].name,
                              PRIMARY_LABELNAME, found[1].namespace)
    [] pc = 2 -> remove_label(b, c, ROLEBINDING, found[1].name \o "-role-binding",
                              PRIMARY_LABELNAME, found[1].namespace)
    [] pc = 3 -> R_get(b, c, target)
    [] pc = 4 -> set_label(
                   b,
                   [k \in DOMAIN c |->
                      IF k[1] = SERVICEACCOUNT /\ k[2] = split(target)[1]
                      THEN [c[k] EXCEPT
                              !.labels = [x \in DOMAIN @ \ {PRIMARY_LABELNAME} |-> @[x]]]
                      ELSE c[k]],
                   SERVICEACCOUNT, split(target)[2],
                   Label(PRIMARY_LABELNAME, "True"), split(target)[1])
    [] pc = 5 -> set_label(b, c, ROLEBINDING, split(target)[2] \o "-role-binding",
                           Label(PRIMARY_LABELNAME, "True"), split(target)[1])

\* The backend call that set_primary(target, namespace of target) makes at
\* position pc, on the cluster c, found being what get_primary returned.
set_primary_step(b, c, pc, found, target) ==
  CASE pc = 0 -> R_get_primary(b, c, split(target)[1])
    [] pc = 1 -> remove_label(b, c, SERVICEACCOUNT, found[1].name,
                              PRIMARY_LABELNAME, found[1].namespace)
    [] pc = 2 -> remove_label(b, c, ROLEBINDING, found[1].name \o "-role-binding",
                              PRIMARY_LABELNAME, found[1].namespace)
    [] pc = 3 -> R_get(b, c, target)
    [] pc = 4 -> set_label(b, c, SERVICEACCOUNT, split(target)[2],
                           Label(PRIMARY_LABELNAME, "True"), split(target)[1])
    [] pc = 5 -> set_label(b, c, ROLEBINDING, split(target)[2] \o "-role-binding",
                           Label(PRIMARY_LABELNAME, "True"), split(target)[1])

\* The position after the call at pc had the outcome r.
next_position(pc, r) ==
  IF ~Ok(r) THEN Returned
  ELSE IF pc = 0 /\ r.val = <<>> THEN 3
  ELSE IF pc = 3 /\ r.val = <<>> THEN Returned
  ELSE pc + 1

\* The error with which set_primary ends after the call at pc.
raised(pc, r, target) ==
  IF ~Ok(r) THEN r.err
  ELSE IF pc = 3 /\ r.val = <<>> THEN AccountNotFound(target)
  ELSE NoErr

\* The accounts a and b of the namespace ns1, created by one caller
\* without fault, each primary or not.
ConcurrentClusters(b) ==
  {R_create(b, R_create(b, EmptyCluster,
                        ServiceAccount("a", "ns1", pa, EmptyConf), {}).c,
            ServiceAccount("b", "ns1", pb, EmptyConf), {}).c :
     pa \in BOOLEAN, pb \in BOOLEAN}

InitConcurrent ==
  /\ backend \in Backends
  /\ cluster \in ConcurrentClusters(backend)
  /\ n = 0
  /\ last = [op |-> "concurrent",
             pc |-> [p \in Callers |-> 0],
             found |-> [p \in Callers |-> <<>>],
             err |-> [p \in Callers |-> NoErr]]

\* Caller p makes its next backend call.
ConcurrentStep(p) ==
  /\ last.pc[p] < Returned
  /\ LET r == set_primary_step(backend, cluster, last.pc[p], last.found[p],
                               ConcurrentTargets[p])
     IN /\ cluster' = r.c
        /\ last' = [last EXCEPT
                      !.pc[p] = next_position(last.pc[p], r),
                      !.found[p] = IF last.pc[p] = 0 /\ Ok(r) THEN r.val ELSE @,
                      !.err[p] = raised(last.pc[p], r, ConcurrentTargets[p])]
        /\ n' = n + 1
        /\ UNCHANGED backend

NextConcurrent ==
  \/ ConcurrentStep(1)
  \/ ConcurrentStep(2)

SpecConcurrent == InitConcurrent /\ [][NextConcurrent]_vars

\* The key under which the cluster holds the resource of a backend call.
TargetKey(resource_type, resource_name, ns) ==
  IF resource_type = NAMESPACE THEN NsKey(resource_name)
  ELSE Key(StoredKind(resource_type), ns, resource_name)

\* An operation called on the backend itself, on the resource of kind
\* resource_type named resource_name; pre tells whether the resource was in
\* the cluster.
BackendRecord(op, resource_type, resource_name, ns, c, r) ==
  [op |-> op, id |-> resource_name, ns |-> ns, primary |-> FALSE,
   confs |-> EmptyConf, F |-> {},
   pre |-> IF Present(c, TargetKey(resource_type, resource_name, ns))
           THEN "present" ELSE "absent",
   err |-> r.err, ret |-> r.val, kind |-> StoredKind(resource_type),
   resource_type |-> resource_type]

\* The resources the backend is called on, as <<kind, name, namespace>>:
\* the four resources of an account and a namespace.
BackendTargets ==
  ({SERVICEACCOUNT} \X {"a"} \X Namespaces)
    \cup ({SECRET_GENERIC} \X {get_secret_name("a")} \X Namespaces)
    \cup {<<ROLE, "a-role", "ns1">>, <<ROLEBINDING, "a-role-binding", "ns1">>,
          <<NAMESPACE, "spark-namespace", None>>}

\* The arguments create needs for a resource of the kind.
BackendExtraArgs(t) ==
  IF t[1] = SECRET_GENERIC THEN [from_env_file |-> SerializedProps(ConfB)]
  ELSE IF t[1] = ROLE THEN [resource |-> <<"pods">>, verb |-> <<"get">>]
  ELSE IF t[1] = ROLEBINDING THEN [role |-> "a-role", serviceaccount |-> id(t[3], "a")]
  ELSE [username |-> t[2]]

\* The kinds under which a resource is deleted: a Secret as "secret" and as
\* "secret generic".
DeleteTypes(t) == IF t[1] = SECRET_GENERIC THEN {SECRET, SECRET_GENERIC} ELSE {t[1]}

BackendCreate ==
  \E t \in BackendTargets :
    LET r == create(backend, cluster, t[1], t[2], t[3], BackendExtraArgs(t))
    IN Write(r, BackendRecord("backend_create", t[1], t[2], t[3], cluster, r))

BackendDelete ==
  \E t \in BackendTargets :
    \E resource_type \in DeleteTypes(t) :
      LET r == delete(backend, cluster, resource_type, t[2], t[3])
      IN Write(r, BackendRecord("backend_delete", resource_type, t[2], t[3],
                                cluster, r))

BackendExists ==
  \E t \in BackendTargets :
    LET r == exists(backend, cluster, t[1], t[2], t[3])
    IN Read(BackendRecord("exists", t[1], t[2], t[3], cluster, r))

BackendGetServiceAccount ==
  \E t \in {t \in BackendTargets : t[1] = SERVICEACCOUNT} :
    LET r == get_service_account(backend, cluster, t[2], t[3])
    IN Read(BackendRecord("get_service_account", SERVICEACCOUNT, t[2], t[3],
                          cluster, r))

BackendGetSecret ==
  \E t \in {t \in BackendTargets : t[1] = SECRET_GENERIC} :
    LET r == get_secret(backend, cluster, t[2], t[3])
    IN Read(BackendRecord("get_secret", SECRET, t[2], t[3], cluster, r))

\* The operations of the backend, called without the registry.
NextBackend ==
  \/ n < MaxBackendOps /\ BackendCreate
  \/ n < MaxBackendOps /\ BackendDelete
  \/ BackendExists
  \/ BackendGetServiceAccount
  \/ BackendGetSecret

SpecBackend == Init /\ [][NextBackend]_vars

\* The kinds a mutation of the backend is called with: the enumerated
\* kinds and one that is not enumerated.
MutationKinds == KubernetesResourceType \cup {"configmap"}

\* The resources the mutations are called on, one of each kind.
MutationTargets ==
  {<<kind, IF kind = NAMESPACE THEN "spark-namespace"
           ELSE IF kind \in {SECRET, SECRET_GENERIC} THEN get_secret_name("a")
           ELSE "a",
     IF kind = NAMESPACE THEN None ELSE "ns1">> : kind \in MutationKinds}

MutationCreate ==
  \E t \in MutationTargets :
    LET r == create(backend, cluster, t[1], t[2], t[3],
                    IF t[1] = SECRET THEN [from_env_file |-> SerializedProps(ConfB)]
                    ELSE BackendExtraArgs(t))
    IN Write(r, BackendRecord("backend_create", t[1], t[2], t[3], cluster, r))

MutationDelete ==
  \E t \in MutationTargets :
    LET r == delete(backend, cluster, t[1], t[2], t[3])
    IN Write(r, BackendRecord("backend_delete", t[1], t[2], t[3], cluster, r))

MutationSetLabel ==
  \E t \in MutationTargets, k \in {PRIMARY_LABELNAME, MANAGED_BY_LABELNAME} :
    LET r == set_label(backend, cluster, t[1], t[2],
                       Label(k, IF k = PRIMARY_LABELNAME THEN "True"
                                ELSE SPARK8S_LABEL), t[3])
    IN Write(r, BackendRecord("backend_set_label", t[1], t[2], t[3], cluster, r))

MutationRemoveLabel ==
  \E t \in MutationTargets :
    LET r == remove_label(backend, cluster, t[1], t[2], PRIMARY_LABELNAME, t[3])
    IN Write(r, BackendRecord("backend_remove_label", t[1], t[2], t[3], cluster, r))

\* The four mutations of the backend, called without the registry.
NextMutation ==
  \/ n < MaxBackendOps /\ MutationCreate
  \/ n < MaxBackendOps /\ MutationDelete
  \/ n < MaxBackendOps /\ MutationSetLabel
  \/ n < MaxBackendOps /\ MutationRemoveLabel

SpecMutation == Init /\ [][NextMutation]_vars

(***************************************************************************)
(* The command lines of KubeInterface.  A command line is a sequence of    *)
(* words; the extra parameters of create are a sequence of parameters in   *)
(* insertion order, each a name with one value (scalar) or with a list of  *)
(* values (list).                                                          *)
(***************************************************************************)
\* The words of the command lines that hold the text "-n".
CommandHasDashN(cmd) ==
  \E i \in DOMAIN cmd : HasDashN(cmd[i]) \/ cmd[i] \in {"-n", "--ignore-not-found"}

CommandHasNamespaceOption(cmd) ==
  \E i \in DOMAIN cmd : HasNamespaceOption(cmd[i])

\* exec: kubectl, the kube config, the namespace option, the context, the
\* command and the output format.
exec_command_line(cmd, ns, output) ==
  <<"kubectl", "--kubeconfig", "kubeconfig">>
    \o (IF exec_namespace_option(CommandHasDashN(cmd),
                                 CommandHasNamespaceOption(cmd), ns) # <<>>
        THEN <<"--namespace", ns>> ELSE <<>>)
    \o <<"--context", "ctx1">>
    \o cmd
    \o <<"-o", output>>

\* listify: a list as it is, any other value as the list of that value.
listify(parameter) ==
  IF "list" \in DOMAIN parameter THEN parameter.list ELSE <<parameter.scalar>>

\* The flags --name=value of the values of one parameter.
parameter_flags(name, values) ==
  [i \in DOMAIN values |-> "--" \o name \o "=" \o values[i]]

\* The flags with the parameter username among them.
RECURSIVE formatted_extra_args_with_username(_)
formatted_extra_args_with_username(extra_args) ==
  IF extra_args = <<>> THEN <<>>
  ELSE parameter_flags(Head(extra_args).name, listify(Head(extra_args)))
         \o formatted_extra_args_with_username(Tail(extra_args))

\* formatted_extra_args of create.
RECURSIVE formatted_extra_args(_)
formatted_extra_args(extra_args) ==
  IF extra_args = <<>> THEN <<>>
  ELSE (IF Head(extra_args).name # "username"
        THEN parameter_flags(Head(extra_args).name, listify(Head(extra_args)))
        ELSE <<>>)
         \o formatted_extra_args(Tail(extra_args))

\* The command line of create.
create_command_line(resource_type, resource_name, ns, extra_args) ==
  IF resource_type = NAMESPACE
  THEN exec_command_line(<<"create", resource_type, resource_name>>, None, "name")
  ELSE exec_command_line(<<"create", resource_type, resource_name>>
                           \o formatted_extra_args(extra_args),
                         OrSelfNamespace(ns), "name")

\* The command line of delete.
delete_command_line(resource_type, resource_name, ns) ==
  exec_command_line(<<"delete", resource_type, resource_name, "--ignore-not-found">>,
                    OrSelfNamespace(ns), "name")

\* The command line of get_service_accounts.
get_service_accounts_command_line(ns, labels) ==
  exec_command_line(<<"get", "serviceaccount">>
                      \o (IF labels # <<>> THEN <<"-l", labels[1]>> ELSE <<>>)
                      \o (IF ns = None THEN <<"-A">> ELSE <<"-n", ns>>),
                    None, "yaml")

\* The extra parameters create of the registry passes for the Identity, the
\* Role, the RoleBinding and the Secret of the account ns1:a.
IdentityArgs == <<[name |-> "username", scalar |-> "a"]>>
RoleArgs ==
  <<[name |-> "resource", list |-> <<"pods", "configmaps", "services">>],
    [name |-> "verb", list |-> <<"create", "get", "list", "watch", "delete">>]>>
RoleBindingArgs ==
  <<[name |-> "role", scalar |-> "a-role"],
    [name |-> "serviceaccount", scalar |-> id("ns1", "a")],
    [name |-> "username", scalar |-> "a"]>>
SecretArgs == <<[name |-> "from-env-file", scalar |-> "spark-dynamic-conf-k8s-1.conf"]>>

\* The extra parameters create is called with: those of the registry, none,
\* and parameters with username first, a repeated value and an empty list.
CommandExtraArgs ==
  {<<>>, IdentityArgs, RoleArgs, RoleBindingArgs, SecretArgs,
   <<[name |-> "username", scalar |-> "a"],
     [name |-> "verb", list |-> <<"get", "list", "get">>],
     [name |-> "resource", list |-> <<>>],
     [name |-> "role", scalar |-> "view"]>>}

\* The kinds and names the commands are built for.
CommandKinds == {SERVICEACCOUNT, ROLE, ROLEBINDING, SECRET_GENERIC, NAMESPACE}
CommandNames == {"a", "spark-namespace"}
CommandNamespaces == {None, "ns1"}

\* A command of the backend: its arguments and the command line run.
CommandRecord(op, resource_type, resource_name, ns, extra_args, line, r) ==
  [op |-> op, resource_type |-> resource_type, id |-> resource_name, ns |-> ns,
   extra_args |-> extra_args, line |-> line, err |-> r.err]

InitCommand ==
  /\ backend = "kubectl"
  /\ cluster = EmptyCluster
  /\ n = 0
  /\ last = CommandRecord("none", None, None, None, <<>>, <<>>,
                          Res(EmptyCluster, NoErr, None))

CommandCreate ==
  \E resource_type \in CommandKinds, resource_name \in CommandNames,
     ns \in CommandNamespaces, extra_args \in CommandExtraArgs :
    LET r == K_create(cluster, resource_type, resource_name, ns,
                      [from_env_file |-> SerializedProps(ConfB)])
    IN Write(r, CommandRecord("create", resource_type, resource_name, ns,
                              extra_args,
                              create_command_line(resource_type, resource_name,
                                                  ns, extra_args), r))

CommandDelete ==
  \E resource_type \in CommandKinds, resource_name \in CommandNames,
     ns \in CommandNamespaces :
    LET r == K_delete(cluster, resource_type, resource_name, ns)
    IN Write(r, CommandRecord("delete", resource_type, resource_name, ns, <<>>,
                              delete_command_line(resource_type, resource_name, ns),
                              r))

CommandGetServiceAccounts ==
  \E ns \in CommandNamespaces :
    LET labels == <<Label(MANAGED_BY_LABELNAME, SPARK8S_LABEL)>>
        r == K_get_service_accounts(cluster, ns, labels)
    IN Read(CommandRecord("get_service_accounts", SERVICEACCOUNT, None, ns, <<>>,
                          get_service_accounts_command_line(ns, labels), r))

\* The commands of the Command backend.
NextCommand ==
  \/ n < MaxCommandOps /\ CommandCreate
  \/ n < MaxCommandOps /\ CommandDelete
  \/ CommandGetServiceAccounts

SpecCommand == InitCommand /\ [][NextCommand]_vars

(***************************************************************************)
(* The properties.                                                         *)
(***************************************************************************)
\* The names of the managed accounts of namespace ns that carry the primary
\* label.
ManagedPrimary(c, ns) ==
  {name \in Names :
     /\ Present(c, Key(SERVICEACCOUNT, ns, name))
     /\ MANAGED_BY_LABELNAME \in DOMAIN c[Key(SERVICEACCOUNT, ns, name)].labels
     /\ PRIMARY_LABELNAME \in DOMAIN c[Key(SERVICEACCOUNT, ns, name)].labels}

\* C1: in every state reached from an empty cluster by a fault-free,
\* non-concurrent sequence of create / set_primary / set_configurations /
\* delete (set_primary with or without its namespace argument), at most one
\* managed account per namespace carries the primary label.
C1_AtMostOnePrimaryPerNamespace ==
  \A ns \in Namespaces : Cardinality(ManagedPrimary(cluster, ns)) <= 1

\* set_primary(A) completed and the step is a set_primary(B) that completes,
\* both without the namespace argument, A and B distinct accounts of the same
\* namespace.
SetPrimaryAThenB ==
  /\ last.op = "set_primary" /\ last.err = NoErr /\ last.ns = None
  /\ last.pre = "full"
  /\ last'.op = "set_primary" /\ last'.err = NoErr /\ last'.ns = None
  /\ last'.pre = "full"
  /\ last.id # last'.id
  /\ split(last.id)[1] = split(last'.id)[1]

\* C2: after set_primary(A) then set_primary(B), A and B distinct managed
\* accounts of one namespace, exactly one of them is primary, it is B, and
\* get_primary(namespace) returns B.
C2_PrimaryExclusivity ==
  [][SetPrimaryAThenB =>
       /\ ManagedPrimary(cluster', split(last'.id)[1])
            \cap {split(last.id)[2], split(last'.id)[2]} = {split(last'.id)[2]}
       /\ R_get_primary(backend, cluster', split(last'.id)[1]).err = NoErr
       /\ Len(R_get_primary(backend, cluster', split(last'.id)[1]).val) = 1
       /\ R_get_primary(backend, cluster', split(last'.id)[1]).val[1].name
            = split(last'.id)[2]]_vars

\* C3: create(A) for an account A whose id is absent, followed by get(A.id),
\* returns an account with the name, namespace, primary flag and extra_confs
\* of A (empty extra_confs included).
C3_CreateGetRoundTrip ==
  (last.op = "create" /\ last.err = NoErr /\ last.pre \in {"absent", "remnant"})
    => R_get(backend, cluster, last.id)
         = Res(cluster, NoErr,
               <<ServiceAccount(split(last.id)[2], split(last.id)[1],
                                last.primary, last.confs)>>)

\* C5: for an id that was never created get(id) returns empty and does not
\* raise, delete(id) does not raise, and set_primary(id) raises
\* AccountNotFound.
C5_UnknownId ==
  /\ (last.op = "get" /\ last.pre \in {"absent", "remnant"})
       => last.err = NoErr /\ last.ret = <<>>
  /\ (last.op = "delete" /\ last.pre \in {"absent", "remnant"})
       => last.err = NoErr
  /\ (last.op = "set_primary" /\ last.pre \in {"absent", "remnant"})
       => last.err = AccountNotFound(last.id)

\* set_primary on an id that does not exist has raised AccountNotFound in a
\* cluster that holds another account.
C5_Witness ==
  /\ last.op = "set_primary"
  /\ last.pre = "absent"
  /\ last.err = AccountNotFound(last.id)
  /\ \E other \in AccountIds : Presence(cluster, other) = "full"

\* The accounts of a listing that have the id account_id.
WithId(accounts, account_id) ==
  {i \in DOMAIN accounts : id(accounts[i].namespace, accounts[i].name) = account_id}

\* C6: after set_configurations(id, confs) a fresh get(id) and the listings
\* return the identical keys with the identical plain-text values: the key
\* encoding of the Secret is inverted on read, distinct keys stay distinct,
\* and the values are decoded at the backend.
C6_ConfigurationRoundTrip ==
  (last.op = "set_configurations" /\ last.err = NoErr /\ last.pre = "full")
    => /\ \A k \in DOMAIN last.confs : deserialize(serialize(k)) = k
       /\ \A k1, k2 \in DOMAIN last.confs :
            serialize(k1) = serialize(k2) => k1 = k2
       /\ R_get(backend, cluster, last.id).err = NoErr
       /\ Len(R_get(backend, cluster, last.id).val) = 1
       /\ R_get(backend, cluster, last.id).val[1].extra_confs = last.confs
       /\ WithId(R_all(backend, cluster, split(last.id)[1]).val, last.id) # {}
       /\ \A ns \in {None} \cup Namespaces :
            \A i \in WithId(R_all(backend, cluster, ns).val, last.id) :
              R_all(backend, cluster, ns).val[i].extra_confs = last.confs

\* set_configurations has written keys with "." and "/" to an account.
C6_Witness ==
  /\ last.op = "set_configurations"
  /\ last.err = NoErr
  /\ last.pre = "full"
  /\ last.confs = ConfA
  /\ R_get(backend, cluster, last.id).val[1].extra_confs = ConfA

\* The managed Identities of the cluster, as <<namespace, name>>.
Managed(c) ==
  {p \in Namespaces \X Names :
     /\ Present(c, Key(SERVICEACCOUNT, p[1], p[2]))
     /\ MatchLabels(c[Key(SERVICEACCOUNT, p[1], p[2])],
                    <<Label(MANAGED_BY_LABELNAME, SPARK8S_LABEL)>>)}

\* The accounts a listing returned, as <<namespace, name>>.
Listed(accounts) ==
  {<<accounts[i].namespace, accounts[i].name>> : i \in DOMAIN accounts}

\* C8: all() without a namespace returns the managed accounts of all
\* namespaces, with either backend.
C8_UnscopedAllListsEveryNamespace ==
  (last.op = "all" /\ last.ns = None)
    => last.err = NoErr /\ Listed(last.ret) = Managed(cluster)

\* Two outcomes are the same: the same returned value, raised or not raised
\* alike, the same cluster.
SameOutcome(x, y) ==
  /\ x.c = y.c
  /\ x.val = y.val
  /\ (x.err = NoErr) = (y.err = NoErr)

\* C9: the two backends are interchangeable: from the same cluster state
\* every registry operation yields the same result and the same cluster over
\* the Command backend and over the Structured-Client backend.
C9_BackendsInterchangeable ==
  /\ \A account_id \in AccountIds :
       /\ SameOutcome(R_get("kubectl", cluster, account_id),
                      R_get("lightkube", cluster, account_id))
       /\ SameOutcome(R_delete("kubectl", cluster, account_id, {}),
                      R_delete("lightkube", cluster, account_id, {}))
       /\ \A ns \in {None} \cup Namespaces :
            SameOutcome(R_set_primary("kubectl", cluster, account_id, ns, {}, 0),
                        R_set_primary("lightkube", cluster, account_id, ns, {}, 0))
       /\ \A confs \in Confs :
            /\ SameOutcome(
                 R_set_configurations("kubectl", cluster, account_id, confs, {}, 0),
                 R_set_configurations("lightkube", cluster, account_id, confs, {}, 0))
            /\ \A primary \in BOOLEAN :
                 SameOutcome(
                   R_create("kubectl", cluster,
                            ServiceAccount(split(account_id)[2], split(account_id)[1],
                                           primary, confs), {}),
                   R_create("lightkube", cluster,
                            ServiceAccount(split(account_id)[2], split(account_id)[1],
                                           primary, confs), {}))
  /\ \A ns \in {None} \cup Namespaces :
       /\ SameOutcome(R_all("kubectl", cluster, ns), R_all("lightkube", cluster, ns))
       /\ SameOutcome(R_get_primary("kubectl", cluster, ns),
                      R_get_primary("lightkube", cluster, ns))

\* C4: for any id and any cluster state (account fully present, partially
\* present or absent), with either backend, delete(id) followed by a second
\* delete(id) never raises, and a subsequent get(id) returns empty.
C4_IdempotentDelete ==
  (last.op = "delete" /\ last.F = {})
    => /\ last.err = NoErr
       /\ R_delete(backend, cluster, last.id, {}).err = NoErr
       /\ R_get(backend, R_delete(backend, cluster, last.id, {}).c, last.id)
            = Res(cluster, NoErr, <<>>)
       /\ R_get(backend, cluster, last.id) = Res(cluster, NoErr, <<>>)

\* delete has run on an account that was partially present.
C4_Witness ==
  /\ last.op = "delete"
  /\ last.F = {}
  /\ last.pre \in {"identity", "remnant"}
  /\ Presence(cluster, last.id) = "absent"

\* The managed Identities of namespace ns, as <<namespace, name>>.
ManagedIn(c, ns) == {p \in Managed(c) : p[1] = ns}

\* C7: in every reachable state all(namespace) returns exactly the
\* Identities of that namespace that carry the managed-by label; an Identity
\* without it (created outside the registry, or left unlabeled by a create
\* that failed before labeling) is never returned.
C7_LabelScoping ==
  (last.op = "all" /\ last.ns # None)
    => /\ last.err = NoErr
       /\ Listed(last.ret) = ManagedIn(cluster, last.ns)
       /\ Len(last.ret) = Cardinality(ManagedIn(cluster, last.ns))

\* all(namespace) has run on a namespace that holds a managed Identity and
\* an Identity without labels.
C7_Witness ==
  /\ last.op = "all"
  /\ last.ns = "ns1"
  /\ Len(last.ret) = 1
  /\ \E name \in Names :
       /\ Present(cluster, Key(SERVICEACCOUNT, "ns1", name))
       /\ cluster[Key(SERVICEACCOUNT, "ns1", name)].labels = NoLabels

\* C10: with both backends, a get of an Identity or of a Secret that does
\* not exist fails with ResourceNotFound carrying the name and the kind of
\* the resource; no error of the transport reaches the caller.
C10_NotFoundNormalized ==
  (last.op \in {"get_service_account", "get_secret"} /\ last.pre = "absent")
    => last.err = K8sResourceNotFound(last.id, last.kind)

\* C11: with either backend and for every resource kind, the deletion of a
\* target that does not exist returns without raising and leaves the
\* cluster unchanged.
C11_BackendDeleteIdempotent ==
  [][(last'.op = "backend_delete" /\ last'.pre = "absent")
       => (last'.err = NoErr /\ cluster' = cluster)]_vars

\* C12: for each backend and each kind among Namespace (no namespace
\* argument), Identity and generic Secret (with a namespace), exists is true
\* after create and false after the following delete.
C12_CreateExistsDelete ==
  (/\ last.op \in {"backend_create", "backend_delete"}
   /\ last.resource_type \in {NAMESPACE, SERVICEACCOUNT, SECRET_GENERIC}
   /\ last.err = NoErr)
    => /\ last.op = "backend_create"
            => exists(backend, cluster, last.resource_type, last.id, last.ns)
                 = Res(cluster, NoErr, TRUE)
       /\ (last.op = "backend_delete" /\ last.pre = "present")
            => exists(backend, cluster, last.resource_type, last.id, last.ns)
                 = Res(cluster, NoErr, FALSE)

\* A generic Secret that was created has been deleted.
C12_Witness ==
  /\ last.op = "backend_delete"
  /\ last.resource_type = SECRET_GENERIC
  /\ last.pre = "present"
  /\ last.err = NoErr
  /\ exists(backend, cluster, SECRET_GENERIC, last.id, last.ns).val = FALSE


\* The calls of create(ServiceAccount(name, ns, primary, confs)) on the
\* cluster c0 whose effect is seen in the cluster: the six of the resources,
\* the two that demote the primary of the namespace when there is one and
\* the two that label the account when it is primary, the creation of the
\* Secret when there are configurations.
VisibleCalls(c0, ns, primary, confs) ==
  (1 .. 6)
    \cup (IF primary /\ ManagedPrimary(c0, ns) # {} THEN {7, 8} ELSE {})
    \cup (IF primary THEN {9, 10} ELSE {})
    \cup (IF confs # EmptyConf THEN {12} ELSE {})

HasLabel(c, key, l) == Present(c, key) /\ l \in DOMAIN c[key].labels

\* Whether the cluster c1 shows the effect of call j of the creation of the
\* account name of namespace ns on the cluster c0.
CallDone(c0, c1, ns, name, j) ==
  LET sa == Key(SERVICEACCOUNT, ns, name)
      role == Key(ROLE, ns, name \o "-role")
      rb == Key(ROLEBINDING, ns, name \o "-role-binding")
  IN CASE j = 1 -> Present(c1, sa)
       [] j = 2 -> Present(c1, role)
       [] j = 3 -> Present(c1, rb)
       [] j = 4 -> HasLabel(c1, sa, MANAGED_BY_LABELNAME)
       [] j = 5 -> HasLabel(c1, role, MANAGED_BY_LABELNAME)
       [] j = 6 -> HasLabel(c1, rb, MANAGED_BY_LABELNAME)
       [] j = 7 -> \A old \in ManagedPrimary(c0, ns) :
                     ~HasLabel(c1, Key(SERVICEACCOUNT, ns, old), PRIMARY_LABELNAME)
       [] j = 8 -> \A old \in ManagedPrimary(c0, ns) :
                     ~HasLabel(c1, Key(ROLEBINDING, ns, old \o "-role-binding"),
                               PRIMARY_LABELNAME)
       [] j = 9 -> HasLabel(c1, sa, PRIMARY_LABELNAME)
       [] j = 10 -> HasLabel(c1, rb, PRIMARY_LABELNAME)
       [] j = 12 -> Present(c1, Key(SECRET, ns, get_secret_name(name)))

\* C13: after create(account) completes without fault for an absent id the
\* Identity, the Role and the RoleBinding exist in account.namespace with
\* the managed-by label, create has returned namespace:name, the primary
\* label is written only if account.primary and the Secret only if
\* extra_confs is not empty; and the calls are issued in the order create
\* Identity, create Role, create RoleBinding, the three labels, set_primary,
\* set_configurations: whichever call fails, the calls whose effect is in
\* the cluster are a prefix of that order.
C13_CreateOrder ==
  [][(last'.op = "create" /\ last'.pre = "absent")
       => LET ns == split(last'.id)[1]
              name == split(last'.id)[2]
              calls == VisibleCalls(cluster, ns, last'.primary, last'.confs)
          IN /\ (last'.F = {} /\ last'.err = NoErr)
                  => /\ last'.ret = id(ns, name)
                     /\ \A j \in calls : CallDone(cluster, cluster', ns, name, j)
                     /\ ~last'.primary
                          => /\ ~CallDone(cluster, cluster', ns, name, 9)
                             /\ ~CallDone(cluster, cluster', ns, name, 10)
                             /\ ManagedPrimary(cluster', ns) = ManagedPrimary(cluster, ns)
                     /\ last'.confs = EmptyConf
                          => ~CallDone(cluster, cluster', ns, name, 12)
             /\ \A i, j \in calls :
                  (i < j /\ CallDone(cluster, cluster', ns, name, j))
                    => CallDone(cluster, cluster', ns, name, i)]_vars

\* A primary account with configurations has been created without fault in
\* a namespace that held a primary account.
C13_Witness ==
  /\ last.op = "create" /\ last.pre = "absent" /\ last.F = {}
  /\ last.id = id("ns1", "a") /\ last.primary /\ last.confs = ConfA
  /\ last.err = NoErr /\ last.ret = id("ns1", "a")
  /\ HasLabel(cluster, Key(SERVICEACCOUNT, "ns1", "b"), MANAGED_BY_LABELNAME)
  /\ ~HasLabel(cluster, Key(SERVICEACCOUNT, "ns1", "b"), PRIMARY_LABELNAME)
  /\ ManagedPrimary(cluster, "ns1") = {"a"}
  /\ Present(cluster, Key(SECRET, "ns1", get_secret_name("a")))

\* The calls of create(ServiceAccount(name, ns, primary, confs)) made on
\* the cluster c0: those seen in the cluster and the deletion of the Secret
\* that set_configurations makes before it creates the new one.
BackendCalls(c0, ns, primary, confs) ==
  VisibleCalls(c0, ns, primary, confs)
    \cup (IF confs # EmptyConf THEN {11} ELSE {})

\* C14: create performs no rollback: if the backend call of any step of
\* create(account) fails, the error propagates to the caller, no later step
\* is executed, and every resource and label written by the earlier steps
\* is left in the cluster as written.  The creations are those that
\* complete when no call fails.
C14_NoRollback ==
  [][(/\ last'.op = "create" /\ last'.pre = "absent"
      /\ Ok(R_create(backend, cluster,
                     ServiceAccount(split(last'.id)[2], split(last'.id)[1],
                                    last'.primary, last'.confs), {}))
      /\ \E k \in BackendCalls(cluster, split(last'.id)[1], last'.primary,
                                last'.confs) : last'.F = {k})
       => LET ns == split(last'.id)[1]
              name == split(last'.id)[2]
              calls == VisibleCalls(cluster, ns, last'.primary, last'.confs)
              k == CHOOSE x \in last'.F : TRUE
          IN /\ last'.err = TransportFault
             /\ \A j \in calls :
                  CallDone(cluster, cluster', ns, name, j) <=> j < k]_vars

\* The resource that deletion i of delete(ns:name) removes.
DeletedKey(ns, name, i) ==
  CASE i = 1 -> Key(SERVICEACCOUNT, ns, name)
    [] i = 2 -> Key(ROLE, ns, name \o "-role")
    [] i = 3 -> Key(ROLEBINDING, ns, name \o "-role-binding")
    [] i = 4 -> Key(SECRET, ns, get_secret_name(name))

\* C15: in delete(id) the four deletions are independent: whichever subset
\* of the four backend delete calls fails, delete(id) does not raise and
\* returns the id, and every resource whose own deletion did not fail is
\* absent afterwards (its deletion was attempted whatever happened to the
\* deletions before it).
C15_DeleteIndependent ==
  [][last'.op = "delete"
       => /\ last'.err = NoErr
          /\ last'.ret = last'.id
          /\ \A i \in DeleteCalls \ last'.F :
               ~Present(cluster', DeletedKey(split(last'.id)[1],
                                            split(last'.id)[2], i))]_vars

\* The deletions of the Identity and of the RoleBinding of a whole account
\* have failed: the Role is gone, the two are left.
C15_Witness ==
  /\ last.op = "delete" /\ last.pre = "full" /\ last.F = {1, 3}
  /\ last.err = NoErr
  /\ Present(cluster, DeletedKey("ns1", "a", 1))
  /\ ~Present(cluster, DeletedKey("ns1", "a", 2))
  /\ Present(cluster, DeletedKey("ns1", "a", 3))
  /\ ~Present(cluster, DeletedKey("ns1", "a", 4))

\* C16: in set_primary the failure of a single relabeling step (removing
\* the primary label from the previous primary's Identity or RoleBinding,
\* adding it to the target's Identity or RoleBinding) is caught and does
\* not abort the operation: set_primary returns and the relabeling steps
\* after the failed one are executed.  The calls are those of a
\* set_primary(id, namespace) that completes when no call fails, id a whole
\* account of the namespace and another account its primary.
C16_RelabelingContinues ==
  [][(/\ last'.op = "set_primary" /\ last'.pre = "full"
      /\ \E k \in RelabelCalls : last'.F = {k}
      /\ Ok(R_set_primary(backend, cluster, last'.id, last'.ns, {}, 0))
      /\ ManagedPrimary(cluster, last'.ns) # {}
      /\ split(last'.id)[2] \notin ManagedPrimary(cluster, last'.ns))
       => /\ last'.err = NoErr
          /\ \A j \in RelabelCalls :
               (\A k \in last'.F : j > k)
                 => CallDone(cluster, cluster', split(last'.id)[1],
                             split(last'.id)[2], j + 6)]_vars

\* C17: self-healing of the primary election: from a state in which zero
\* or more than one managed account of a namespace carry the primary label,
\* once a set_primary(id, namespace) (id a whole account of that namespace)
\* or a get_primary(namespace) completes, at most one account of the namespace
\* carries the label, and after set_primary it is the target alone.
C17_SelfHealing ==
  [][\A ns \in Namespaces :
       Cardinality(ManagedPrimary(cluster, ns)) # 1
         => /\ (/\ last'.op = "set_primary" /\ last'.err = NoErr
                 /\ last'.pre = "full" /\ split(last'.id)[1] = ns
                 /\ last'.ns = ns)
                  => ManagedPrimary(cluster', ns) = {split(last'.id)[2]}
            /\ (last'.op = "get_primary" /\ last'.err = NoErr /\ last'.ns = ns)
                  => Cardinality(ManagedPrimary(cluster', ns)) <= 1]_vars

\* What get_primary, recorded in l, has to return when all(namespace)
\* returns a: nothing when no account of a is marked primary, else the
\* account of a marked primary that is listed first.
AgreesWithAll(l, a) ==
  LET marked == {i \in DOMAIN a.val : a.val[i].primary}
  IN Ok(a)
       => /\ l.err = NoErr
          /\ marked = {} => l.ret = <<>>
          /\ marked # {}
               => l.ret = <<a.val[CHOOSE i \in marked : \A j \in marked : i <= j]>>

\* C18: get_primary(namespace) never raises on the count of primaries: it
\* returns empty when all(namespace) is empty or has no account marked
\* primary, the single primary when there is exactly one, and the first
\* primary in listing order when more than one account is marked primary.
C18_GetPrimaryCount ==
  last.op = "get_primary"
    => AgreesWithAll(last, R_all(backend, cluster, last.ns))

\* get_primary has run on a namespace with two primaries and has returned
\* the first of them.
C18_Witness ==
  /\ last.op = "get_primary" /\ last.ns = "ns1" /\ last.err = NoErr
  /\ ManagedPrimary(cluster, "ns1") = {"a", "b"}
  /\ last.ret # <<>>
  /\ last.ret[1].name = "a"

\* C19: set_configurations(id, confs) on an existing account changes only
\* that account's configuration Secret: every other object of the cluster
\* (the Identity, Role and RoleBinding of id and of every other account,
\* their labels, the primary label among them, the other Secrets) is
\* unchanged, and no other object appears or disappears.
C19_SetConfigurationsFrame ==
  [][(last'.op = "set_configurations" /\ last'.pre \in {"full", "identity"})
       => LET secret == Key(SECRET, split(last'.id)[1],
                            get_secret_name(split(last'.id)[2]))
          IN /\ DOMAIN cluster' \ {secret} = DOMAIN cluster \ {secret}
             /\ \A key \in DOMAIN cluster \ {secret} : cluster'[key] = cluster[key]
             /\ \A ns \in Namespaces :
                  ManagedPrimary(cluster', ns) = ManagedPrimary(cluster, ns)]_vars

\* The configurations of a whole primary account have been set.
C19_Witness ==
  /\ last.op = "set_configurations" /\ last.pre = "full" /\ last.err = NoErr
  /\ last.id = id("ns1", "a") /\ last.confs = ConfB
  /\ ManagedPrimary(cluster, "ns1") = {"a"}
  /\ Present(cluster, Key(SECRET, "ns1", get_secret_name("a")))

\* The server of the cluster that a context of the config refers to.
ServerOf(kube_config, ctx) ==
  (CHOOSE k \in {kube_config.clusters[i] : i \in DOMAIN kube_config.clusters} :
     k.name = ctx.cluster).server

\* The positions of the contexts of the config whose cluster has the
\* server endpoint.
Matching(kube_config, endpoint) ==
  {i \in DOMAIN kube_config.contexts :
     ServerOf(kube_config, kube_config.contexts[i]) = endpoint}

\* C20: select_by_master(endpoint) raises AccountNotFound exactly when no
\* context of the configuration refers to a cluster whose server equals
\* endpoint; it returns the very same backend instance when the current
\* context is one of the matching contexts; otherwise it returns a new
\* backend of the same configuration bound to the first matching context in
\* configuration order; whenever it does not raise, the api_server of the
\* backend returned equals endpoint.
C20_SelectByMaster ==
  last.op = "select_by_master"
    => LET kube_config == last.self.kube_config
           matching == Matching(kube_config, last.master)
           first == CHOOSE i \in matching : \A j \in matching : i <= j
           current == {i \in matching :
                         kube_config.contexts[i].name = context_name(last.self)}
       IN /\ last.err = AccountNotFound(last.master) <=> matching = {}
          /\ last.err \in {NoErr, AccountNotFound(last.master)}
          /\ (matching # {} /\ current # {})
               => last.same /\ last.ret = last.self
          /\ (matching # {} /\ current = {})
               => /\ ~last.same
                  /\ last.ret.kube_config = kube_config
                  /\ context_name(last.ret) = kube_config.contexts[first].name
          /\ last.err = NoErr => api_server(last.ret) = last.master

\* select_by_master has returned the instance itself, whose context is a
\* matching context that is not the first one.
C20_Witness ==
  /\ last.op = "select_by_master" /\ last.err = NoErr /\ last.same
  /\ last.ret = last.self
  /\ \E i \in Matching(last.self.kube_config, last.master) :
       last.self.kube_config.contexts[i].name # context_name(last.self)
  /\ context_name(last.self) # last.self.kube_config.contexts[1].name
  /\ api_server(last.ret) = last.master

\* What is observed on a backend instance: its resolved context name,
\* context, cluster, namespace and api_server.
Observed(self) ==
  [context_name |-> context_name(self), context |-> context(self),
   cluster |-> current_cluster(self), namespace |-> namespace(self),
   api_server |-> api_server(self)]

\* C21: the resolved context name, cluster, namespace and api_server of a
\* backend instance are fixed at construction: after every operation on it
\* (with_context, select_by_master, get / list / create / delete / label
\* calls) the receiver shows the values it showed before; with_context and
\* a select_by_master that rebinds return a new instance.
C21_InstanceImmutable ==
  last.op # "none"
    => /\ Observed(last.receiver) = Observed(last.self)
       /\ last.receiver = last.self
       /\ last.op = "with_context" => ~last.same
       /\ (last.op = "select_by_master" /\ last.err = NoErr
             /\ context_name(last.ret) # context_name(last.self))
            => ~last.same

\* select_by_master has rebound: the backend returned has another context,
\* another api_server and another namespace than the receiver, which shows
\* what it showed.
C21_Witness ==
  /\ last.op = "select_by_master" /\ last.err = NoErr /\ ~last.same
  /\ context_name(last.ret) # context_name(last.self)
  /\ api_server(last.ret) # api_server(last.self)
  /\ namespace(last.ret) # namespace(last.self)
  /\ Observed(last.receiver) = Observed(last.self)

\* C22: for every account that get(id) returns, its derived configuration
\* holds every entry of its extra_confs and the two injected entries,
\* service-account name = account.name and namespace = account.namespace,
\* and nothing else; the injected entries are not among the entries read
\* from the configuration Secret.
C22_DerivedConfigurations ==
  (last.op = "get" /\ last.err = NoErr /\ last.ret # <<>>)
    => LET account == last.ret[1]
           conf == ServiceAccount_configurations(account)
       IN /\ account.name = split(last.id)[2]
          /\ account.namespace = split(last.id)[1]
          /\ \A k \in DOMAIN account.extra_confs :
               k \in DOMAIN conf /\ conf[k] = account.extra_confs[k]
          /\ ServiceAccountNameKey \in DOMAIN conf
          /\ conf[ServiceAccountNameKey] = account.name
          /\ NamespaceKey \in DOMAIN conf
          /\ conf[NamespaceKey] = account.namespace
          /\ DOMAIN conf
               = DOMAIN account.extra_confs \cup {ServiceAccountNameKey, NamespaceKey}
          /\ DOMAIN account.extra_confs \cap {ServiceAccountNameKey, NamespaceKey} = {}

\* get has returned an account of namespace ns1 created with two
\* configuration entries: its derived configuration has four.
C22_Witness ==
  /\ last.op = "get" /\ last.err = NoErr /\ last.ret # <<>>
  /\ last.id = id("ns1", "a")
  /\ last.ret[1].extra_confs = ConfA
  /\ Cardinality(DOMAIN ServiceAccount_configurations(last.ret[1])) = 4
  /\ ServiceAccount_configurations(last.ret[1])[NamespaceKey] = "ns1"

\* What get(id) returns after a set_configurations, g, is an account whose
\* extra_confs are those of the call recorded in l.
ConfigurationIs(l, g) ==
  /\ Ok(g)
  /\ g.val # <<>>
  /\ g.val[1].extra_confs = l.confs

\* C23: set_configurations replaces the configuration wholesale: after a
\* set_configurations(id, C2) that completes on an existing account,
\* whatever configuration C1 an earlier set_configurations (or create) had
\* given it, get(id).extra_confs equals C2 exactly, also when C2 is empty.
C23_ReplacedWholesale ==
  (/\ last.op = "set_configurations" /\ last.err = NoErr
   /\ last.pre \in {"full", "identity"})
    => ConfigurationIs(last, R_get(backend, cluster, last.id))

\* An account whose configuration had two entries has been given the
\* empty configuration.
C23_Witness ==
  /\ last.op = "set_configurations" /\ last.err = NoErr /\ last.pre = "full"
  /\ last.was = ConfA /\ last.confs = EmptyConf
  /\ ConfigurationIs(last, R_get(backend, cluster, last.id))

\* C24: set_primary(id) and set_primary(id, namespace) look for the account
\* to demote only in the namespace of the target: when the call completes
\* on a whole account, the primary accounts of every other namespace are
\* those of before, and an account that was primary in the namespace of id
\* no longer is, unless it is the target.  The call is made with no
\* namespace or with the namespace of id, in a cluster with at most one
\* primary per namespace.
C24_DemotesInTargetNamespace ==
  [][(/\ last'.op = "set_primary" /\ last'.err = NoErr /\ last'.pre = "full"
      /\ last'.ns \in {None, split(last'.id)[1]}
      /\ \A ns \in Namespaces : Cardinality(ManagedPrimary(cluster, ns)) <= 1)
       => /\ \A ns \in Namespaces \ {split(last'.id)[1]} :
               ManagedPrimary(cluster', ns) = ManagedPrimary(cluster, ns)
          /\ ManagedPrimary(cluster', split(last'.id)[1])
               = {split(last'.id)[2]}]_vars

\* C25: a failed set_primary leaves the election unchanged: when
\* set_primary(id) raises AccountNotFound because id does not exist, the
\* cluster is the same as before the call; the account that was primary is
\* still primary.
C25_FailedSetPrimaryFrame ==
  [][(last'.op = "set_primary" /\ last'.err = AccountNotFound(last'.id))
       => /\ cluster' = cluster
          /\ \A ns \in Namespaces :
               ManagedPrimary(cluster', ns) = ManagedPrimary(cluster, ns)]_vars

\* Both callers have returned from set_primary without error.
BothReturned ==
  \A p \in Callers : last.pc[p] = Returned /\ last.err[p] = NoErr

\* The caller p saw the account name of namespace ns1 as primary.
Saw(p, name) ==
  last.found[p] # <<>> /\ last.found[p][1].name = name

\* C26: without a lock, the callers of set_primary(A) and set_primary(B),
\* A and B distinct managed accounts of one namespace, interleaved at the
\* granularity of one backend call, can both complete without error and
\* leave both A and B primary: when both have returned, the target of a
\* caller is primary unless the other caller saw it as primary, so that two
\* callers neither of which saw the other's target leave two primaries,
\* and never none.
C26_ConcurrentSetPrimary ==
  BothReturned
    => /\ ~Saw(2, "a") => "a" \in ManagedPrimary(cluster, "ns1")
       /\ ~Saw(1, "b") => "b" \in ManagedPrimary(cluster, "ns1")
       /\ ManagedPrimary(cluster, "ns1") # {}

\* Both callers have returned without error and both A and B are primary.
C26_Witness ==
  /\ BothReturned
  /\ ManagedPrimary(cluster, "ns1") = {"a", "b"}

\* The Identity, the Role, the RoleBinding and the configuration Secret of
\* the account account_id.
ResourcesOf(account_id) ==
  {Key(SERVICEACCOUNT, split(account_id)[1], split(account_id)[2]),
   Key(ROLE, split(account_id)[1], split(account_id)[2] \o "-role"),
   Key(ROLEBINDING, split(account_id)[1], split(account_id)[2] \o "-role-binding"),
   Key(SECRET, split(account_id)[1], get_secret_name(split(account_id)[2]))}

\* C27: cleanup converges: from any state that faulted create / delete /
\* set_primary / set_configurations operations on an account id reach, one
\* delete(id) whose backend calls do not fail leaves the Identity, the Role,
\* the RoleBinding and the configuration Secret of id absent, get(id)
\* returns empty and a following create(id) finds the account absent.
C27_CleanupConverges ==
  (last.op = "delete" /\ last.F = {})
    => /\ last.err = NoErr
       /\ ResourcesOf(last.id) \cap DOMAIN cluster = {}
       /\ R_get(backend, cluster, last.id).val = <<>>
       /\ R_get(backend, cluster, last.id).err = NoErr
       /\ Presence(cluster, last.id) = "absent"

\* A delete without fault has run on what an earlier faulted operation
\* left without Identity (a Role, a RoleBinding or a Secret alone).
C27_Witness ==
  /\ last.op = "delete"
  /\ last.F = {}
  /\ last.pre = "remnant"
  /\ ResourcesOf(last.id) \cap DOMAIN cluster = {}

\* C28: no orphan configuration: in every state reached by fault-free
\* operations of one caller, the configuration Secret of an account name
\* exists in a namespace only if the Identity name exists in that
\* namespace; a set_configurations for an id whose account does not exist
\* creates no resource.
C28_NoOrphanConfiguration ==
  /\ \A ns \in Namespaces, name \in Names :
       Present(cluster, Key(SECRET, ns, get_secret_name(name)))
         => Present(cluster, Key(SERVICEACCOUNT, ns, name))
  /\ (last.op = "set_configurations" /\ last.pre = "absent")
       => Presence(cluster, last.id) = "absent"

\* The Identity and the RoleBinding of the account name of namespace ns
\* agree on carrying the label l.
LabelAgrees(c, ns, name, l) ==
  HasLabel(c, Key(SERVICEACCOUNT, ns, name), l)
    <=> HasLabel(c, Key(ROLEBINDING, ns, name \o "-role-binding"), l)

\* C29: in every state reached by fault-free create / set_primary /
\* set_configurations / delete operations of one caller, the Identity of an
\* account carries the primary label if and only if its RoleBinding
\* name-role-binding carries it, and the Identity carries the managed-by
\* label if and only if the RoleBinding does.
C29_LabelAgreement ==
  \A ns \in Namespaces, name \in Names :
    /\ LabelAgrees(cluster, ns, name, PRIMARY_LABELNAME)
    /\ LabelAgrees(cluster, ns, name, MANAGED_BY_LABELNAME)

\* set_primary has moved the primary label in a namespace: the new primary
\* carries it on both resources, the account that was primary on neither,
\* and both are managed on both.
C29_Witness ==
  /\ last.op = "set_primary"
  /\ last.err = NoErr
  /\ \E ns \in Namespaces, name \in Names, other \in Names :
       /\ last.id = id(ns, name)
       /\ other # name
       /\ HasLabel(cluster, Key(SERVICEACCOUNT, ns, name), PRIMARY_LABELNAME)
       /\ HasLabel(cluster, Key(ROLEBINDING, ns, name \o "-role-binding"),
                   PRIMARY_LABELNAME)
       /\ HasLabel(cluster, Key(SERVICEACCOUNT, ns, other), MANAGED_BY_LABELNAME)
       /\ HasLabel(cluster, Key(ROLEBINDING, ns, other \o "-role-binding"),
                   MANAGED_BY_LABELNAME)
       /\ ~HasLabel(cluster, Key(SERVICEACCOUNT, ns, other), PRIMARY_LABELNAME)

\* The configuration Secret of the account name of namespace ns cannot be
\* read on the cluster c: it is absent or has no data.
Unreadable(b, c, ns, name) ==
  ~Ok(get_secret(b, c, get_secret_name(name), ns))

\* The listing a returned without raising and holds the account account_id
\* with an empty configuration.
ListedEmpty(a, account_id) ==
  /\ a.err = NoErr
  /\ WithId(a.val, account_id) # {}
  /\ \A i \in WithId(a.val, account_id) : a.val[i].extra_confs = EmptyConf

\* C30: for every managed account whose configuration Secret is absent or
\* cannot be read (any backend error, a Secret without data), get(id) and
\* all(namespace) do not raise and return the account with the empty
\* configuration, with either backend; any error of the read of the Secret
\* gives the empty configuration.
C30_ListingNeverFailsOnConfiguration ==
  /\ \A p \in Managed(cluster) :
       Unreadable(backend, cluster, p[1], p[2])
         => /\ ListedEmpty(R_get(backend, cluster, id(p[1], p[2])), id(p[1], p[2]))
            /\ ListedEmpty(R_all(backend, cluster, p[1]), id(p[1], p[2]))
  /\ \A e \in {TransportFault, ApiError(404), ApiError(403), KeyError("data"),
                K8sResourceNotFound(get_secret_name("a"), SECRET)} :
       configurations_of(Res(cluster, e, None)) = EmptyConf

\* get has returned, with an empty configuration, a managed account whose
\* configuration Secret is in the cluster without data.
C30_Witness ==
  /\ last.op = "get"
  /\ last.err = NoErr
  /\ last.ret # <<>>
  /\ last.ret[1].extra_confs = EmptyConf
  /\ <<last.ret[1].namespace, last.ret[1].name>> \in Managed(cluster)
  /\ Present(cluster, Key(SECRET, last.ret[1].namespace,
                          get_secret_name(last.ret[1].name)))
  /\ Unreadable(backend, cluster, last.ret[1].namespace, last.ret[1].name)

\* The outcome g of get(account_id) on the cluster c is one of the two:
\* empty when the Identity does not exist, otherwise the account, which is
\* not primary when its Identity carries no label.
TwoOutcomes(c, g, account_id) ==
  /\ g.err = NoErr
  /\ ~Present(c, Key(SERVICEACCOUNT, split(account_id)[1], split(account_id)[2]))
       => g.val = <<>>
  /\ Present(c, Key(SERVICEACCOUNT, split(account_id)[1], split(account_id)[2]))
       => /\ Len(g.val) = 1
          /\ g.val[1].name = split(account_id)[2]
          /\ g.val[1].namespace = split(account_id)[1]
          /\ c[Key(SERVICEACCOUNT, split(account_id)[1],
                   split(account_id)[2])].labels = NoLabels
               => ~g.val[1].primary

\* The Identity of account_id is in the cluster c and carries no label.
HasNoLabels(c, account_id) ==
  /\ Present(c, Key(SERVICEACCOUNT, split(account_id)[1], split(account_id)[2]))
  /\ c[Key(SERVICEACCOUNT, split(account_id)[1], split(account_id)[2])].labels
       = NoLabels

\* C31: for any id and any reachable state get(id) is empty when the
\* Identity does not exist and otherwise an account; for an Identity that
\* carries no labels (created outside the registry, or left by a create
\* that failed before labeling it) get(id) returns an account that is not
\* primary instead of raising, and set_primary(id) fails with no error
\* other than AccountNotFound.
C31_GetTwoOutcomes ==
  \A account_id \in AccountIds :
    /\ TwoOutcomes(cluster, R_get(backend, cluster, account_id), account_id)
    /\ HasNoLabels(cluster, account_id)
         => R_set_primary(backend, cluster, account_id, split(account_id)[1],
                          {}, 0).err
              \in {NoErr, AccountNotFound(account_id)}

\* C32: delete(id) addresses only the Identity name, the Role name-role,
\* the RoleBinding name-role-binding and the Secret of name in the
\* namespace of id, the names create(id) uses: every other resource of the
\* cluster, and with it the labels, primary status and configuration of
\* every other account (another name, a name that extends the name of id,
\* the same name in another namespace), is unchanged.
C32_DeleteFrame ==
  [][/\ last'.op = "delete"
        => /\ \A k \in (DOMAIN cluster \cup DOMAIN cluster') \ ResourcesOf(last'.id) :
                /\ k \in DOMAIN cluster
                /\ k \in DOMAIN cluster'
                /\ cluster'[k] = cluster[k]
           /\ \A other \in FrameIds \ {last'.id} :
                R_get(backend, cluster', other).val = R_get(backend, cluster, other).val
     /\ (last'.op = "create" /\ last'.err = NoErr)
        => /\ DOMAIN cluster' \ DOMAIN cluster \subseteq ResourcesOf(last'.id)
           /\ ResourcesOf(last'.id) \ DOMAIN cluster'
                \subseteq {Key(SECRET, split(last'.id)[1],
                               get_secret_name(split(last'.id)[2]))}]_vars

\* ns1:a has been deleted, and the account ns1:a-role is whole, with its
\* configuration.
C32_Witness ==
  /\ last.op = "delete"
  /\ last.F = {}
  /\ last.pre = "full"
  /\ Presence(cluster, last.id) = "absent"
  /\ Presence(cluster, id("ns1", "a-role")) = "full"
  /\ R_get(backend, cluster, id("ns1", "a-role")).val # <<>>
  /\ R_get(backend, cluster, id("ns1", "a-role")).val[1].extra_confs = ConfA

\* The operation was a mutation of the backend.
IsMutation(l) ==
  l.op \in {"backend_create", "backend_delete", "backend_set_label",
            "backend_remove_label"}

\* The backend refused the kind without calling the cluster.
UnsupportedResourceKind(l) == l.err.type = "NotImplementedError"

\* C33: a mutation of the backend (create, delete, set_label, remove_label)
\* fails as unsupported, without a cluster call, exactly when the kind is
\* outside the enumerated kinds (Identity, Role, RoleBinding, Secret,
\* generic Secret, Namespace); for every enumerated kind the mutation is
\* dispatched to the cluster, with either backend.
C33_UnsupportedKind ==
  IsMutation(last)
    => (UnsupportedResourceKind(last) <=> last.resource_type \notin KubernetesResourceType)

\* The values of the namespace flags of a command line.
NamespaceFlags(line) ==
  {line[i + 1] : i \in {j \in 1..(Len(line) - 1) : line[j] = "--namespace"}}

\* C34: in the Command backend the command line that creates a Namespace
\* carries no namespace flag, for every resource name; and the command line
\* exec builds for a namespace-scoped kind carries the namespace flag only
\* with a namespace value, never with the absent namespace as its value.
C34_NamespaceFlag ==
  /\ (last.op = "create" /\ last.resource_type = NAMESPACE)
       => NamespaceFlags(last.line) = {}
  /\ (last.op # "none" /\ last.resource_type # NAMESPACE)
       => None \notin NamespaceFlags(last.line)

\* The flags of the command line of a create: the words between the
\* resource name and the output option.
FlagsOf(line) ==
  LET start == CHOOSE i \in DOMAIN line : line[i] = "create"
  IN SubSeq(line, start + 3, Len(line) - 2)

\* The parameters that are rendered: all but username, in insertion order.
Rendered(extra_args) == SelectSeq(extra_args, LAMBDA p : p.name # "username")

\* The values of a parameter.
ValuesOf(p) == IF "list" \in DOMAIN p THEN p.list ELSE <<p.scalar>>

\* The number of values of the first j parameters of ps.
RECURSIVE ValuesBefore(_, _)
ValuesBefore(ps, j) ==
  IF j = 0 THEN 0 ELSE ValuesBefore(ps, j - 1) + Len(ValuesOf(ps[j]))

\* C35: in the Command backend create renders the extra parameters as
\* --name=value flags: one flag per value, a list-valued parameter giving
\* one flag per element, parameters in insertion order and the values of a
\* parameter in their input order, the parameter username left out and
\* nothing else dropped or reordered; the Role is created with the
\* resources pods, configmaps, services and the verbs create, get, list,
\* watch, delete, in that order.
C35_ExtraArgsRendering ==
  (last.op = "create" /\ last.resource_type # NAMESPACE)
    => /\ Len(FlagsOf(last.line))
            = ValuesBefore(Rendered(last.extra_args), Len(Rendered(last.extra_args)))
       /\ \A j \in DOMAIN Rendered(last.extra_args) :
            \A v \in DOMAIN ValuesOf(Rendered(last.extra_args)[j]) :
              FlagsOf(last.line)[ValuesBefore(Rendered(last.extra_args), j - 1) + v]
                = "--" \o Rendered(last.extra_args)[j].name \o "="
                    \o ValuesOf(Rendered(last.extra_args)[j])[v]
       /\ last.extra_args = RoleArgs
            => FlagsOf(last.line)
                 = <<"--resource=pods", "--resource=configmaps", "--resource=services",
                     "--verb=create", "--verb=get", "--verb=list", "--verb=watch",
                     "--verb=delete">>

\* A Role has been created with parameters that hold username before a
\* list with a repeated value, an empty list and a single value.
C35_Witness ==
  /\ last.op = "create"
  /\ last.resource_type = ROLE
  /\ last.err = NoErr
  /\ Len(last.extra_args) = 4
  /\ FlagsOf(last.line) = <<"--verb=get", "--verb=list", "--verb=get", "--role=view">>

====
